---- MODULE Spec2Model ----
(***************************************************************************)
(* Dash-cam video processing pipeline of strtsmrt_fullstack.               *)
(*                                                                         *)
(* Two implementations of the pipeline run against one Supabase database   *)
(* and one storage bucket:                                                 *)
(*   - the edge function `handler` (src/unnamed/part_000): download,       *)
(*     ffprobe, exiftool, start time, metadata update, segmentation and    *)
(*     the per-clip loop of processVideoClips;                             *)
(*   - the Express endpoint POST /api/process-video/:videoId               *)
(*     (src/src/server/index.ts): download, extractGpsData, update.        *)
(* A third program, the /extract route with GPSExtractor                   *)
(* (src/unnamed/part_006), shares the Express server's temp directory.     *)
(*                                                                         *)
(* An `await` of the source is a point where another invocation may run,   *)
(* so the awaited operations are separate actions.  Times are integers in  *)
(* milliseconds, coordinates are integers in arc seconds.                  *)
(***************************************************************************)
EXTENDS Integers, Sequences, FiniteSets, TLC

\* ------------------------------------------------------------------ bounds

\* Date.now() takes the values 0..MaxNow.
MaxNow == 1
\* The splitting tool writes at most MaxClips clip files in one run.
MaxClips == 2

\* Invocation slots: each is used by at most one invocation.
Runs == {1, 2}
\* Rows of video_metadata that exist; id 0 stands for an id that is absent
\* from the request or names no row.
Videos == {1, 2}
NoVideo == 0

\* ------------------------------------------------------------- option type

None == <<>>
Some(x) == <<x>>
IsSome(o) == o # <<>>
Val(o) == o[1]

\* ------------------------------------------------------------- program constants

\* const segmentLength = 10 (seconds), held in milliseconds.
segmentLength == 10000
\* Math.abs(duration - segmentLength) < 0.1 (seconds), held in milliseconds.
Tolerance == 100

\* upload_user_id of a video row: both rows belong to one user.
Owner(v) == "u1"

\* ------------------------------------------------------------- tool outputs

\* Not-a-number / Invalid Date.
NaN == -1

\* A container tag as ffprobe prints it: the text parses to time `txt`
\* (NaN: the text is no date), followed or not by the marker "UTC".
TagUTC == [txt |-> 0, utc |-> TRUE]
TagBad == [txt |-> NaN, utc |-> FALSE]

\* ffprobe -show_format -show_streams, as parsed JSON: format.duration and
\* the two tags getVideoStartTime reads.
MetaFull == [duration |-> Some(35000), encoded_date |-> None, creation_time |-> Some(TagUTC)]
MetaBare == [duration |-> None, encoded_date |-> Some(TagBad), creation_time |-> None]

\* One item of the exiftool -ee -b dump: a timestamp/latitude/longitude
\* triple the pattern of parseGpsData matches, or text it does not match.
Triple(ts, lat, lon) == [kind |-> "triple", ts |-> ts, lat |-> lat, lon |-> lon]
Junk == [kind |-> "junk", ts |-> 0, lat |-> 0, lon |-> 0]

\* A line of the text `exiftool -ExtractEmbedded` prints: GPS Date/Time,
\* GPS Latitude or GPS Longitude with a value in degrees, minutes, seconds and
\* a hemisphere letter ("?": the value does not have that form), or another line.
Dms(deg, min, sec, dir) == [deg |-> deg, min |-> min, sec |-> sec, dir |-> dir]
TimeLine(ts) == [kind |-> "time", ts |-> ts, dms |-> Dms(0, 0, 0, "?"), lat |-> 0, lon |-> 0]
LatLine(dms) == [kind |-> "lat", ts |-> 0, dms |-> dms, lat |-> 0, lon |-> 0]
LonLine(dms) == [kind |-> "lon", ts |-> 0, dms |-> dms, lat |-> 0, lon |-> 0]
OtherLine == [kind |-> "other", ts |-> 0, dms |-> Dms(0, 0, 0, "?"), lat |-> 0, lon |-> 0]
\* A line of `ffmpeg -f ffmetadata` that holds a latitude= and a longitude= field.
PairLine(lat, lon) == [kind |-> "pair", ts |-> 0, dms |-> Dms(0, 0, 0, "?"), lat |-> lat, lon |-> lon]

\* What the tools print for the raw file of video f, when they run to their
\* end: the tools are functions of the file they are given.
\*   video 1: duration and a creation_time tag, two GPS samples (the later
\*            one first), full clips followed by a short remainder;
\*   video 2: no duration, no tag that parses, no GPS sample, full clips only.
Media(f) ==
  IF f = 1
  THEN [probe |-> MetaFull,
        gps |-> <<Triple(10000, 150400, -317200), Triple(0, 150300, -317300)>>,
        clips |-> [k \in 1..MaxClips |-> IF k < MaxClips THEN 10090 ELSE 5000],
        exif |-> <<TimeLine(0), LatLine(Dms(41, 45, 0, "N")), LonLine(Dms(88, 8, 20, "W")),
                   TimeLine(10000), LatLine(Dms(41, 46, 40, "N")), LonLine(Dms(88, 6, 40, "W"))>>,
        ffmeta |-> <<PairLine(150300, -317300)>>]
  ELSE [probe |-> MetaBare,
        gps |-> <<Junk>>,
        clips |-> [k \in 1..MaxClips |-> 10090],
        exif |-> <<OtherLine>>,
        ffmeta |-> <<OtherLine>>]

\* ------------------------------------------------------------- pure functions

\* Array.prototype.sort with the comparator a.timestamp - b.timestamp: a
\* stable sort, ascending by timestamp.
RECURSIVE InsertByTime(_, _)
InsertByTime(rec, sorted) ==
  IF sorted = <<>> THEN <<rec>>
  ELSE IF rec.timestamp < Head(sorted).timestamp THEN <<rec>> \o sorted
  ELSE <<Head(sorted)>> \o InsertByTime(rec, Tail(sorted))

RECURSIVE SortByTime(_)
SortByTime(records) ==
  IF records = <<>> THEN <<>>
  ELSE InsertByTime(records[Len(records)], SortByTime(SubSeq(records, 1, Len(records) - 1)))

\* The record parseGpsData pushes for one match of its pattern.
GpsRecordOf(item) == [timestamp |-> item.ts, latitude |-> item.lat, longitude |-> item.lon]

RECURSIVE MatchedRecords(_)
MatchedRecords(raw) ==
  IF raw = <<>> THEN <<>>
  ELSE IF Head(raw).kind = "triple" THEN <<GpsRecordOf(Head(raw))>> \o MatchedRecords(Tail(raw))
  ELSE MatchedRecords(Tail(raw))

\* parseGpsData(raw): every match of the pattern, sorted by timestamp.
parseGpsData(raw) == SortByTime(MatchedRecords(raw))

\* new Date(txt): the time the text denotes, NaN when it is no date or still
\* carries the marker.
DateParse(tag) == IF tag.txt >= 0 /\ ~tag.utc THEN tag.txt ELSE NaN

\* tags[key].replace('UTC', '').trim()
StripUTC(tag) == [tag EXCEPT !.utc = FALSE]

\* getVideoStartTime(metadata, gps), with `clock` the value new Date() would
\* give: encoded_date, then creation_time, then the first GPS record, then now.
getVideoStartTime(metadata, gps, clock) ==
  LET parsed(t) == IF IsSome(t) THEN DateParse(StripUTC(Val(t))) ELSE NaN
  IN IF parsed(metadata.encoded_date) # NaN THEN parsed(metadata.encoded_date)
     ELSE IF parsed(metadata.creation_time) # NaN THEN parsed(metadata.creation_time)
     ELSE IF Len(gps) > 0 THEN gps[1].timestamp
     ELSE clock

\* getVideoStartTime of the earlier handler: the first of encoded_date,
\* creation_time, date that is present decides; new Date(dateStr) does not
\* throw, so a text that is no date gives Invalid Date (NaN) and the try's
\* catch is never entered.
getVideoStartTime_001(metadata, gpsRecords, clock) ==
  IF IsSome(metadata.encoded_date) THEN DateParse(StripUTC(Val(metadata.encoded_date)))
  ELSE IF IsSome(metadata.creation_time) THEN DateParse(StripUTC(Val(metadata.creation_time)))
  ELSE IF IsSome(metadata.date) THEN DateParse(StripUTC(Val(metadata.date)))
  ELSE IF Len(gpsRecords) > 0 THEN gpsRecords[1].timestamp
  ELSE clock

\* Math.abs(duration - segmentLength) < 0.1, on the double parseFloat gives
\* for the printed duration. The doubles nearest to 10.1 and 9.9 lie 0.1 minus
\* 3.6e-16 from 10, and the double 0.1 is greater than that, so a duration
\* printed as 10.100000 or 9.900000 passes the test; every other duration
\* of whole milliseconds passes exactly when it is less than 100 ms off.
Abs(x) == IF x < 0 THEN -x ELSE x
ClipAccepted(duration) == Abs(duration - segmentLength) <= Tolerance

\* The filter with the end of the window taken in.
clipGpsDataClosed(gpsData, videoStart, i) ==
  LET clipStartTime == videoStart + i * segmentLength
      clipEndTime == clipStartTime + segmentLength
      keep(record) == record.timestamp >= clipStartTime /\ record.timestamp <= clipEndTime
  IN SelectSeq(gpsData, keep)

\* gpsData.filter(record => recordTime >= clipStartTime && recordTime < clipEndTime)
clipGpsData(gpsData, videoStart, i) ==
  LET clipStartTime == videoStart + i * segmentLength
      clipEndTime == clipStartTime + segmentLength
      keep(record) == record.timestamp >= clipStartTime /\ record.timestamp < clipEndTime
  IN SelectSeq(gpsData, keep)

\* The start and end coordinates the handler adds to updateData
\* (if gpsData.length > 0): none for an empty track.
Coord(record) == [latitude |-> record.latitude, longitude |-> record.longitude]

\* A faulty variant of TrackEnds: an empty track gives the coordinates (0, 0).
TrackEndsDefault(gpsData) ==
  IF Len(gpsData) > 0
  THEN Some([start |-> Coord(gpsData[1]), end |-> Coord(gpsData[Len(gpsData)])])
  ELSE Some([start |-> [latitude |-> 0, longitude |-> 0],
             end |-> [latitude |-> 0, longitude |-> 0]])

\* A faulty variant of TrackEnds: the first point taken for both ends.
TrackEndsFirstOnly(gpsData) ==
  IF Len(gpsData) > 0
  THEN Some([start |-> Coord(gpsData[1]), end |-> Coord(gpsData[1])])
  ELSE None

TrackEnds(gpsData) ==
  IF Len(gpsData) > 0
  THEN Some([start |-> Coord(gpsData[1]), end |-> Coord(gpsData[Len(gpsData)])])
  ELSE None

\* ------------------------------------------- pure functions of the server

\* A faulty variant of the conversion: negated for S alone.
parseDmsCoordinateSouthOnly(dms) ==
  IF dms.dir \notin {"N", "S", "E", "W"} THEN None
  ELSE LET decimal == dms.deg * 3600 + dms.min * 60 + dms.sec
       IN Some(IF dms.dir = "S" THEN -decimal ELSE decimal)

\* parseDmsCoordinate(dmsValue, direction) for a string: degrees + minutes/60
\* + seconds/3600, negated for S and W; null when the pattern does not match.
parseDmsCoordinate(dms) ==
  IF dms.dir \notin {"N", "S", "E", "W"} THEN None
  ELSE LET decimal == dms.deg * 3600 + dms.min * 60 + dms.sec
       IN Some(IF dms.dir \in {"S", "W"} THEN -decimal ELSE decimal)

\* isValidGpsCoordinate(latitude, longitude), in arc seconds.
isValidGpsCoordinate(latitude, longitude) ==
  /\ latitude >= -90 * 3600 /\ latitude <= 90 * 3600
  /\ longitude >= -180 * 3600 /\ longitude <= 180 * 3600
  /\ ~(latitude = 0 /\ longitude = 0)

\* currentEntry of the block parser; `currentEntry.latitude &&
\* currentEntry.longitude` is false for a missing and for a zero value.
EmptyEntry == [timestamp |-> None, latitude |-> None, longitude |-> None]
Truthy(o) == IsSome(o) /\ Val(o) # 0
EntryComplete(e) == Truthy(e.latitude) /\ Truthy(e.longitude)

\* The loop over the lines: st.coordinates are the entries pushed so far,
\* st.currentEntry the entry being filled.
ParseLine(st, line) ==
  IF line.kind = "time"
  THEN [coordinates |-> IF EntryComplete(st.currentEntry)
                        THEN Append(st.coordinates, st.currentEntry) ELSE st.coordinates,
        currentEntry |-> [EmptyEntry EXCEPT !.timestamp = Some(line.ts)]]
  ELSE IF line.kind = "lat" /\ IsSome(parseDmsCoordinate(line.dms))
  THEN [st EXCEPT !.currentEntry.latitude = parseDmsCoordinate(line.dms)]
  ELSE IF line.kind = "lon" /\ IsSome(parseDmsCoordinate(line.dms))
  THEN [st EXCEPT !.currentEntry.longitude = parseDmsCoordinate(line.dms)]
  ELSE st

RECURSIVE ParseLines(_, _)
ParseLines(st, lines) ==
  IF lines = <<>> THEN st ELSE ParseLines(ParseLine(st, Head(lines)), Tail(lines))

\* The entries of the text, the last one included when it is complete.
ParsedCoordinates(lines) ==
  LET st == ParseLines([coordinates |-> <<>>, currentEntry |-> EmptyEntry], lines)
  IN IF EntryComplete(st.currentEntry) THEN Append(st.coordinates, st.currentEntry)
     ELSE st.coordinates

\* extractGpsWithExifTool on the tool's text: each complete, valid entry
\* becomes a record whose timestamp is new Date(), the time of the call.
ServerRecord(latitude, longitude, clock) ==
  [timestamp |-> clock, latitude |-> latitude, longitude |-> longitude]
RECURSIVE ConvertCoordinates(_, _)
ConvertCoordinates(coordinates, clock) ==
  IF coordinates = <<>> THEN <<>>
  ELSE LET coord == Head(coordinates)
           rest == ConvertCoordinates(Tail(coordinates), clock)
       IN IF EntryComplete(coord)
             /\ isValidGpsCoordinate(Val(coord.latitude), Val(coord.longitude))
          THEN <<ServerRecord(Val(coord.latitude), Val(coord.longitude), clock)>> \o rest
          ELSE rest
extractGpsWithExifTool(lines, clock) == ConvertCoordinates(ParsedCoordinates(lines), clock)

\* extractGpsWithExifTool of the background variant, on the text of
\* `exiftool -n`: the values are numbers. An entry is pushed when both its
\* latitude and its longitude are set (!== undefined), without a test of
\* their values; its timestamp is new Date() of the GPS Date/Time text,
\* "YYYY:MM:DD hh:mm:ssZ", which is no date new Date() reads. st.gpsRecords
\* are the records pushed so far, st.currentEntry the entry being filled.
RECURSIVE ParseLines_001(_, _)
ParseLines_001(st, lines) ==
  LET e == st.currentEntry
      pushed == IF IsSome(e.latitude) /\ IsSome(e.longitude)
                THEN Append(st.gpsRecords, [timestamp |-> NaN, latitude |-> Val(e.latitude),
                                            longitude |-> Val(e.longitude)])
                ELSE st.gpsRecords
  IN IF lines = <<>> THEN pushed
     ELSE LET line == Head(lines)
          IN ParseLines_001(
               IF line.kind = "time"
               THEN [gpsRecords |-> pushed,
                     currentEntry |-> [EmptyEntry EXCEPT !.timestamp = Some(line.ts)]]
               ELSE IF line.kind = "lat" THEN [st EXCEPT !.currentEntry.latitude = Some(line.lat)]
               ELSE IF line.kind = "lon" THEN [st EXCEPT !.currentEntry.longitude = Some(line.lon)]
               ELSE st,
               Tail(lines))
extractGpsWithExifTool_001(lines) ==
  ParseLines_001([gpsRecords |-> <<>>, currentEntry |-> EmptyEntry], lines)

\* extractGpsWithFfmpeg on the metadata text: the valid latitude/longitude
\* pairs, each stamped with the time of the call.
RECURSIVE extractGpsWithFfmpeg(_, _)
extractGpsWithFfmpeg(lines, clock) ==
  IF lines = <<>> THEN <<>>
  ELSE LET line == Head(lines)
           rest == extractGpsWithFfmpeg(Tail(lines), clock)
       IN IF line.kind = "pair" /\ isValidGpsCoordinate(line.lat, line.lon)
          THEN <<ServerRecord(line.lat, line.lon, clock)>> \o rest
          ELSE rest

\* GPSExtractor.parseRawMetadata: the matches of its pattern, sorted by time.
parseRawMetadata(rawData) == SortByTime(MatchedRecords(rawData))

\* GPSExtractor.extractBasicGPSData: a point every 10 s from the time of the
\* call, around a fixed position; jitterLat, jitterLon stand for the values
\* (Math.random() - 0.5) * 0.01 takes.
testPoints == 60
startLat == 150371
startLon == -317233
extractBasicGPSData(clock, jitterLat, jitterLon) ==
  [i \in 1..testPoints |-> [timestamp |-> clock + (i - 1) * 10000,
                            latitude |-> startLat + jitterLat,
                            longitude |-> startLon + jitterLon]]
Jitters == {-18, 18}

\* ------------------------------------------------------------------- state

VARIABLES
  now,        \* the clock Date.now() / new Date() reads
  rows,       \* table video_metadata: id -> row
  clips,      \* table video_clips: the set of rows
  bucket,     \* storage bucket 'videos': the processed-clip paths present
  tmpInput,   \* edge /tmp: input_<t>.mp4 -> the video whose raw file it holds, 0 when absent
  tmpClips,   \* edge /tmp: clips_<t>/ -> the durations of its clip files, None when absent
  tempVideo,  \* server temp/: <videoId>-<file_name> -> the video whose raw file it holds, 0 when absent
  tempUpload, \* server temp/: <t>-<originalname> -> the video whose file was uploaded, 0 when absent
  run,        \* per invocation: position and local variables
  obs         \* per invocation: what it has done so far (history, read by the properties only)

vars == <<now, rows, clips, bucket, tmpInput, tmpClips, tempVideo, tempUpload, run, obs>>

Times == 0..MaxNow

\* A row of video_metadata as the upload leaves it (processing_status
\* defaults to 'unprocessed', the other columns are NULL).
NewRow ==
  [processing_status |-> "unprocessed", processing_error |-> None, duration |-> None,
   recorded_at |-> None, raw_metadata |-> None, ends |-> None]

\* The body of an edge-function request.  filePath 0, userId "" and
\* cameraId "" stand for an absent field; filePath v is the raw file of video v.
\* The userId is whatever the caller sends: the requests include one for video
\* 1 under another user id.
EdgeRequest(v, f, u, c) == [videoMetadataId |-> v, filePath |-> f, userId |-> u, cameraId |-> c]
\* The server endpoint takes the id alone, from the URL.
ServerRequest(videoId) == EdgeRequest(videoId, 0, "", "")
\* The /extract route takes an uploaded file (0: the request carries none).
ExtractRequest(file) == EdgeRequest(NoVideo, file, "", "")
NoRequest == EdgeRequest(NoVideo, 0, "", "")
EdgeRequests ==
  {EdgeRequest(v, v, Owner(v), "garmin_dashcam") : v \in Videos}
    \cup {EdgeRequest(1, 0, Owner(1), "garmin_dashcam"),
          EdgeRequest(1, 1, "", "garmin_dashcam"),
          EdgeRequest(1, 1, Owner(1), ""),
          EdgeRequest(NoVideo, 1, Owner(1), "generic"),
          EdgeRequest(1, 1, "u2", "generic")}

IdleRun ==
  [pc |-> "idle", kind |-> "none", req |-> NoRequest, bodyUsed |-> FALSE,
   tempInput |-> None, outputDir |-> None, metadata |-> None, gpsData |-> <<>>,
   videoStart |-> 0, clipFiles |-> 0, i |-> 0, duration |-> 0, clipGps |-> <<>>,
   gpsFormat |-> "none", toolFailed |-> FALSE, err |-> None]

\* A faulty variant of the return: the invocation puts itself back at its
\* first update, as a pipeline that retried by itself would.
ReturnedToRetry(r) ==
  [IdleRun EXCEPT !.pc = IF run[r].kind = "edge" THEN "setProcessing"
                         ELSE IF run[r].kind = "server" THEN "sSetProcessing" ELSE "done",
                  !.kind = run[r].kind, !.req = run[r].req, !.bodyUsed = run[r].bodyUsed]

\* A returned invocation: its local variables are gone.
Returned(r) == [IdleRun EXCEPT !.pc = "done", !.kind = run[r].kind, !.req = run[r].req]

\* The history of one invocation:
\*   writes   the processing_status values it has sent, in order
\*   dl       it has called storage download
\*   meta     it has sent the metadata update;  ends: with coordinates
\*   gps      how GPS extraction ended: "fail", "empty", "some"
\*   seg      how the ffmpeg segment run ended: "ok", "fail"
\*   files    the clip files listed;  visited: the loop passes finished
\*   aborted  the loop was left by a throw
\*   accepted the clip indexes that passed the duration test
\*   clipFail the accepted indexes whose upload or insert failed
\*   fatal    the message of the error the catch block received
\*   final    the row as the catch block's update left it
\*   track    what GPSExtractor.extractGPSData returned
NoObs ==
  [writes |-> <<>>, dl |-> FALSE, meta |-> FALSE, ends |-> FALSE,
   gps |-> "none", seg |-> "none", files |-> 0, visited |-> 0, aborted |-> FALSE,
   accepted |-> {}, clipFail |-> {},
   fatal |-> None, final |-> None, track |-> <<>>]

Init ==
  /\ now = 0
  /\ rows = [v \in Videos |-> NewRow]
  /\ clips = {}
  /\ bucket = {}
  /\ tmpInput = [t \in Times |-> 0]
  /\ tmpClips = [t \in Times |-> None]
  /\ tempVideo = [v \in Videos |-> 0]
  /\ tempUpload = [t \in Times |-> 0]
  /\ run = [r \in Runs |-> IdleRun]
  /\ obs = [r \in Runs |-> NoObs]

\* The values a read of the clock may give: time does not go back.
ClockReads == {t \in Times : t = now \/ t = now + 1}

\* The object handed to update(): a column is written when it is present
\* (Some), and left as it is when it is not (None).  updated_at is not held.
NoUpdate ==
  [processing_status |-> None, processing_error |-> None, duration |-> None,
   recorded_at |-> None, raw_metadata |-> None, ends |-> None]
Pick(column, old) == IF IsSome(column) THEN Val(column) ELSE old
ApplyUpdate(row, u) ==
  [processing_status |-> Pick(u.processing_status, row.processing_status),
   processing_error |-> Pick(u.processing_error, row.processing_error),
   duration |-> Pick(u.duration, row.duration),
   recorded_at |-> Pick(u.recorded_at, row.recorded_at),
   raw_metadata |-> Pick(u.raw_metadata, row.raw_metadata),
   ends |-> Pick(u.ends, row.ends)]
\* A faulty variant of the update: sent without .eq('id', ...), it is applied
\* to every row of the table.
UpdateRowUnfiltered(id, u) == [v \in Videos |-> ApplyUpdate(rows[v], u)]

\* supabase.from('video_metadata').update(fields).eq('id', id): the row with
\* that id, when there is one, takes the fields.
UpdateRow(id, u) == IF id \in Videos THEN [rows EXCEPT ![id] = ApplyUpdate(rows[id], u)] ELSE rows
RowOf(table, id) == IF id \in Videos THEN Some(table[id]) ELSE None

\* The update both programs send first.
ProcessingUpdate == [NoUpdate EXCEPT !.processing_status = Some("processing")]

\* How a tool run on the file at /tmp/input_<t>.mp4 may end: exit status 0
\* with the output for that file, or a non-zero exit; only the latter when
\* the file is not there.
ToolRuns(t) == IF tmpInput[t] = 0 THEN {"exit"} ELSE {"ok", "exit"}

\* ------------------------------------------------- edge function: handler

\* A faulty variant of the guard: it also turns away a video that an earlier
\* run has left Failed or Processing.
handlerInvokeFirstRunOnly(r) ==
  /\ run[r].pc = "idle"
  /\ \E q \in EdgeRequests :
       LET missing == q.filePath = 0 \/ q.userId = "" \/ q.cameraId = ""
           busy == q.videoMetadataId \in Videos
                   /\ rows[q.videoMetadataId].processing_status \in {"failed", "processing"}
       IN run' = [run EXCEPT ![r] =
                    [IdleRun EXCEPT !.kind = "edge", !.req = q, !.bodyUsed = TRUE,
                                    !.pc = IF missing \/ busy THEN "catch" ELSE "setProcessing",
                                    !.err = IF missing \/ busy
                                            THEN Some("Missing required parameters")
                                            ELSE None]]
  /\ UNCHANGED <<now, rows, clips, bucket, tmpInput, tmpClips, obs, tempVideo, tempUpload>>

\* await req.json() and the guard on filePath, userId, cameraId.
handlerInvoke(r) ==
  /\ run[r].pc = "idle"
  /\ \E q \in EdgeRequests :
       LET missing == q.filePath = 0 \/ q.userId = "" \/ q.cameraId = ""
       IN run' = [run EXCEPT ![r] =
                    [IdleRun EXCEPT !.kind = "edge", !.req = q, !.bodyUsed = TRUE,
                                    !.pc = IF missing THEN "catch" ELSE "setProcessing",
                                    !.err = IF missing THEN Some("Missing required parameters")
                                            ELSE None]]
  /\ UNCHANGED <<now, rows, clips, bucket, tmpInput, tmpClips, obs, tempVideo, tempUpload>>

\* update({ processing_status: 'processing' }).eq('id', videoMetadataId);
\* the result is not looked at, so a refused update goes unnoticed.
handlerSetProcessing(r) ==
  /\ run[r].pc = "setProcessing"
  /\ \E ok \in BOOLEAN :
       rows' = IF ok THEN UpdateRow(run[r].req.videoMetadataId, ProcessingUpdate) ELSE rows
  /\ run' = [run EXCEPT ![r].pc = "download"]
  /\ obs' = [obs EXCEPT ![r].writes = Append(@, "processing")]
  /\ UNCHANGED <<now, clips, bucket, tmpInput, tmpClips, tempVideo, tempUpload>>

\* storage.download(filePath), then Deno.writeFile(`/tmp/input_${Date.now()}.mp4`).
handlerDownload(r) ==
  /\ run[r].pc = "download"
  /\ \E ok \in BOOLEAN, t \in ClockReads :
       IF ok
       THEN /\ now' = t
            /\ tmpInput' = [tmpInput EXCEPT ![t] = run[r].req.filePath]
            /\ run' = [run EXCEPT ![r].pc = "probe", ![r].tempInput = Some(t)]
       ELSE /\ t = now
            /\ run' = [run EXCEPT ![r].pc = "catch", ![r].err = Some("Download failed")]
            /\ UNCHANGED <<now, tmpInput>>
  /\ obs' = [obs EXCEPT ![r].dl = TRUE]
  /\ UNCHANGED <<rows, clips, bucket, tmpClips, tempVideo, tempUpload>>

\* runCommand(['ffprobe', ...]) and JSON.parse of its output.
handlerProbe(r) ==
  /\ run[r].pc = "probe"
  /\ \E st \in ToolRuns(Val(run[r].tempInput)) \cup {"notjson"} :
       IF st = "ok"
       THEN run' = [run EXCEPT ![r].metadata = Some(Media(tmpInput[Val(run[r].tempInput)]).probe),
                               ![r].pc = IF run[r].req.cameraId = "garmin_dashcam"
                                         THEN "exif" ELSE "update"]
       ELSE run' = [run EXCEPT ![r].pc = "catch",
                               ![r].err = IF st = "exit"
                                          THEN Some("Command failed (ffprobe)")
                                          ELSE Some("Unexpected token in JSON")]
  /\ UNCHANGED <<now, rows, clips, bucket, tmpInput, tmpClips, obs, tempVideo, tempUpload>>

\* runCommand(['exiftool', '-ee', '-b', tempInput]) and parseGpsData, inside
\* the try whose catch only warns.
handlerExif(r) ==
  /\ run[r].pc = "exif"
  /\ \E st \in ToolRuns(Val(run[r].tempInput)) :
       LET gpsData == IF st = "ok"
                      THEN parseGpsData(Media(tmpInput[Val(run[r].tempInput)]).gps)
                      ELSE <<>>
       IN /\ run' = [run EXCEPT ![r].pc = "update", ![r].gpsData = gpsData]
          /\ obs' = [obs EXCEPT ![r].gps = IF st # "ok" THEN "fail"
                                           ELSE IF gpsData = <<>> THEN "empty" ELSE "some"]
  /\ UNCHANGED <<now, rows, clips, bucket, tmpInput, tmpClips, tempVideo, tempUpload>>

\* updateData of the handler: duration, recorded_at, raw_metadata and
\* processing_status 'completed', plus the coordinates of a non-empty track.
handlerUpdateData(metadata, videoStart, gpsData) ==
  [NoUpdate EXCEPT !.duration = Some(metadata.duration),
                   !.recorded_at = Some(Some(videoStart)),
                   !.raw_metadata = Some(Some(<<"ffprobe", metadata>>)),
                   !.processing_status = Some("completed"),
                   !.ends = IF IsSome(TrackEnds(gpsData)) THEN Some(TrackEnds(gpsData)) ELSE None]

\* getVideoStartTime, then update(updateData).eq('id', videoMetadataId).
handlerUpdate(r) ==
  /\ run[r].pc = "update"
  /\ \E ok \in BOOLEAN, t \in ClockReads :
       LET metadata == Val(run[r].metadata)
           videoStart == getVideoStartTime(metadata, run[r].gpsData, t)
           updateData == handlerUpdateData(metadata, videoStart, run[r].gpsData)
       IN /\ t # now => getVideoStartTime(metadata, run[r].gpsData, NaN) = NaN
          /\ now' = t
          /\ IF ok
             THEN /\ rows' = UpdateRow(run[r].req.videoMetadataId, updateData)
                  /\ run' = [run EXCEPT ![r].pc = "segment", ![r].videoStart = videoStart,
                                        ![r].metadata = None]
                  /\ obs' = [obs EXCEPT ![r].writes = Append(@, "completed"),
                                        ![r].meta = TRUE,
                                        ![r].ends = IsSome(updateData.ends)]
             ELSE /\ run' = [run EXCEPT ![r].pc = "catch", ![r].err = Some("DB update failed")]
                  /\ UNCHANGED <<rows, obs>>
  /\ UNCHANGED <<clips, bucket, tmpInput, tmpClips, tempVideo, tempUpload>>

\* --------------------------------------- edge function: processVideoClips

\* Deno.mkdir(outputDir, { recursive: true }): an existing directory stays.
Mkdir(dir) == IF IsSome(dir) THEN dir ELSE Some(<<>>)

\* ffmpeg writes clip_000.mp4, clip_001.mp4, ... over what the directory holds.
Overlay(new, old) ==
  [k \in 1..(IF Len(new) > Len(old) THEN Len(new) ELSE Len(old)) |->
     IF k <= Len(new) THEN new[k] ELSE old[k]]

\* The locals of processVideoClips that nothing reads once the loop is left.
LoopLeft(r, pc) ==
  [run[r] EXCEPT !.pc = pc, !.gpsData = <<>>, !.videoStart = 0, !.clipFiles = 0, !.i = 0,
                 !.duration = 0, !.clipGps = <<>>]

\* The for loop after clip i: on to the next clip, or past the loop.
AfterClip(r, i) ==
  IF i + 1 < run[r].clipFiles
  THEN [run[r] EXCEPT !.pc = "clip", !.i = i + 1, !.duration = 0, !.clipGps = <<>>]
  ELSE LoopLeft(r, "rmdir")

\* mkdir of `/tmp/clips_${Date.now()}`, the ffmpeg segment run and the
\* sorted listing of the directory.  A throw is caught by the function's own
\* catch, which only logs: the handler goes on to its cleanup.
processVideoClipsSegment(r) ==
  /\ run[r].pc = "segment"
  /\ \E t \in ClockReads, st \in ToolRuns(Val(run[r].tempInput)) :
       LET dir == Mkdir(tmpClips[t])
       IN /\ now' = t
          /\ IF st = "ok"
             THEN LET files == Overlay(Media(tmpInput[Val(run[r].tempInput)]).clips, Val(dir))
                  IN /\ tmpClips' = [tmpClips EXCEPT ![t] = Some(files)]
                     /\ run' = [run EXCEPT ![r].pc = "clip", ![r].outputDir = Some(t),
                                           ![r].clipFiles = Len(files), ![r].i = 0]
                     /\ obs' = [obs EXCEPT ![r].seg = "ok", ![r].files = Len(files)]
             ELSE /\ tmpClips' = [tmpClips EXCEPT ![t] = dir]
                  /\ run' = [run EXCEPT ![r] = [LoopLeft(r, "cleanup") EXCEPT !.outputDir = Some(t)]]
                  /\ obs' = [obs EXCEPT ![r].seg = "fail"]
  /\ UNCHANGED <<rows, clips, bucket, tmpInput, tempVideo, tempUpload>>

\* One pass of the loop up to the upload: ffprobe of clip i, the test of its
\* duration, the GPS records of its window and Deno.readFile.
processVideoClipsProbe(r) ==
  /\ run[r].pc = "clip"
  /\ \E ok \in BOOLEAN :
       LET i == run[r].i
           dir == tmpClips[Val(run[r].outputDir)]
           present == IsSome(dir) /\ i + 1 <= Len(Val(dir))
       IN /\ ~present => ~ok
          /\ IF ~ok
             THEN /\ run' = [run EXCEPT ![r] = LoopLeft(r, "cleanup")]
                  /\ obs' = [obs EXCEPT ![r].aborted = TRUE]
             ELSE IF ClipAccepted(Val(dir)[i + 1])
             THEN /\ run' = [run EXCEPT ![r].pc = "upload",
                                        ![r].duration = Val(dir)[i + 1],
                                        ![r].clipGps = clipGpsData(run[r].gpsData,
                                                                   run[r].videoStart, i)]
                  /\ obs' = [obs EXCEPT ![r].accepted = @ \cup {i}]
             ELSE /\ run' = [run EXCEPT ![r] = AfterClip(r, i)]
                  /\ obs' = [obs EXCEPT ![r].visited = i + 1]
  /\ UNCHANGED <<now, rows, clips, bucket, tmpInput, tmpClips, tempVideo, tempUpload>>

\* A faulty variant of the upload error path: `break` in place of `continue`.
AfterUploadErrorBreak(r, i) == LoopLeft(r, "rmdir")

\* if (clipUploadError) { ...; continue }
AfterUploadError(r, i) == AfterClip(r, i)

\* `processed-clips/${userId}/${clipFile}`
clipStoragePath(userId, i) == <<userId, i>>

\* storage.upload(clipStoragePath, clipData): refused when the path is taken
\* (upsert is off) or when the service fails; a refusal skips the clip.
processVideoClipsUpload(r) ==
  /\ run[r].pc = "upload"
  /\ \E ok \in BOOLEAN :
       LET i == run[r].i
           path == clipStoragePath(run[r].req.userId, i)
       IN IF ok /\ path \notin bucket
          THEN /\ bucket' = bucket \cup {path}
               /\ run' = [run EXCEPT ![r].pc = "insert"]
               /\ UNCHANGED obs
          ELSE /\ run' = [run EXCEPT ![r] = AfterUploadError(r, i)]
               /\ obs' = [obs EXCEPT ![r].clipFail = @ \cup {i}, ![r].visited = i + 1]
               /\ UNCHANGED bucket
  /\ UNCHANGED <<now, rows, clips, tmpInput, tmpClips, tempVideo, tempUpload>>

\* The row the loop inserts into video_clips for clip i.
ClipRecord(r) ==
  [video_id |-> run[r].req.videoMetadataId, clip_index |-> run[r].i,
   clip_file_path |-> clipStoragePath(run[r].req.userId, run[r].i),
   duration |-> run[r].duration, gps_records |-> run[r].clipGps, run |-> r]

\* A faulty variant of the table: the foreign key alone, without
\* UNIQUE(video_id, clip_index).
InsertAllowedNoUnique(rec) == rec.video_id \in Videos

\* video_clips: video_id REFERENCES video_metadata(id), UNIQUE(video_id, clip_index).
InsertAllowed(rec) ==
  /\ rec.video_id \in Videos
  /\ \A c \in clips : ~(c.video_id = rec.video_id /\ c.clip_index = rec.clip_index)

\* A faulty variant of the insert: the new row takes the place of the rows
\* stored under the same clip_index.
InsertRowReplacing(table, rec) == {c \in table : c.clip_index # rec.clip_index} \cup {rec}

\* What an accepted insert does to the table: one more row.
InsertRow(table, rec) == table \cup {rec}

\* from('video_clips').insert({...}): the result is not looked at.
processVideoClipsInsert(r) ==
  /\ run[r].pc = "insert"
  /\ \E ok \in BOOLEAN :
       IF ok /\ InsertAllowed(ClipRecord(r))
       THEN /\ clips' = InsertRow(clips, ClipRecord(r))
            /\ obs' = [obs EXCEPT ![r].visited = run[r].i + 1]
       ELSE /\ obs' = [obs EXCEPT ![r].clipFail = @ \cup {run[r].i}, ![r].visited = run[r].i + 1]
            /\ UNCHANGED clips
  /\ run' = [run EXCEPT ![r] = AfterClip(r, run[r].i)]
  /\ UNCHANGED <<now, rows, bucket, tmpInput, tmpClips, tempVideo, tempUpload>>

\* Deno.remove(outputDir, { recursive: true }); a throw is caught and logged.
processVideoClipsRemove(r) ==
  /\ run[r].pc = "rmdir"
  /\ tmpClips' = [tmpClips EXCEPT ![Val(run[r].outputDir)] = None]
  /\ run' = [run EXCEPT ![r].pc = "cleanup"]
  /\ UNCHANGED <<now, rows, clips, bucket, tmpInput, obs, tempVideo, tempUpload>>

\* Deno.remove(tempInput) and the 200 response; the remove throws when the
\* file is gone.
handlerCleanup(r) ==
  /\ run[r].pc = "cleanup"
  /\ LET t == Val(run[r].tempInput)
     IN IF tmpInput[t] # 0
        THEN /\ tmpInput' = [tmpInput EXCEPT ![t] = 0]
             /\ run' = [run EXCEPT ![r] = Returned(r)]
        ELSE /\ run' = [run EXCEPT ![r].pc = "catch", ![r].err = Some("No such file")]
             /\ UNCHANGED tmpInput
  /\ UNCHANGED <<now, rows, clips, bucket, tmpClips, obs, tempVideo, tempUpload>>

\* A faulty variant of the catch's read of the request: the body is handed
\* out again although it has been read.
CloneBodyAgain(r) == Some(run[r].req)

\* req.clone(): a Request whose body has been read cannot be cloned; the
\* call throws a TypeError (Fetch standard, Request.clone, "unusable" body).
CloneBody(r) == IF run[r].bodyUsed THEN None ELSE Some(run[r].req)

\* A faulty variant of the catch's update: a fixed text in place of the
\* error's message.
FailedUpdateUnknown(message) ==
  [NoUpdate EXCEPT !.processing_status = Some("failed"),
                   !.processing_error = Some(Some("Unknown error"))]

\* The update the catch block sends.
FailedUpdate(message) ==
  [NoUpdate EXCEPT !.processing_status = Some("failed"), !.processing_error = Some(Some(message))]

\* catch (err): req.clone().json() inside its own try; with a body and a
\* videoMetadataId, update({processing_status: 'failed', processing_error}).
\* Then the 500 response.
handlerCatch(r) ==
  /\ run[r].pc = "catch"
  /\ LET body == CloneBody(r)
         writes == IsSome(body) /\ Val(body).videoMetadataId # NoVideo
     IN /\ rows' = IF writes
                   THEN UpdateRow(Val(body).videoMetadataId, FailedUpdate(Val(run[r].err)))
                   ELSE rows
        /\ obs' = [obs EXCEPT ![r].writes = IF writes THEN Append(@, "failed") ELSE @,
                              ![r].fatal = run[r].err,
                              ![r].final = IF writes
                                           THEN RowOf(rows', run[r].req.videoMetadataId)
                                           ELSE @]
  /\ run' = [run EXCEPT ![r] = Returned(r)]
  /\ UNCHANGED <<now, clips, bucket, tmpInput, tmpClips, tempVideo, tempUpload>>

\* ------------------------- server: POST /api/process-video/:videoId

\* The files in the storage directory of a video's owner: the fallback of the
\* download takes the first video file the listing returns.
FilesOfOwner(videoId) == {f \in Videos : Owner(f) = Owner(videoId)}

\* select('*').eq('id', videoId).single(): a row, or an error (no such row,
\* or the query fails) that is thrown as 'Video not found'.
serverFetch(r) ==
  /\ run[r].pc = "idle"
  /\ \E videoId \in Videos \cup {NoVideo}, ok \in BOOLEAN :
       LET found == ok /\ videoId \in Videos
       IN run' = [run EXCEPT ![r] =
                    [IdleRun EXCEPT !.kind = "server", !.req = ServerRequest(videoId),
                                    !.pc = IF found THEN "sSetProcessing" ELSE "sCatch",
                                    !.err = IF found THEN None ELSE Some("Video not found")]]
  /\ UNCHANGED <<now, rows, clips, bucket, tmpInput, tmpClips, tempVideo, tempUpload, obs>>

\* update({ processing_status: 'processing', updated_at }); the result is
\* not looked at.
serverSetProcessing(r) ==
  /\ run[r].pc = "sSetProcessing"
  /\ \E ok \in BOOLEAN :
       rows' = IF ok THEN UpdateRow(run[r].req.videoMetadataId, ProcessingUpdate) ELSE rows
  /\ run' = [run EXCEPT ![r].pc = "sDownload"]
  /\ obs' = [obs EXCEPT ![r].writes = Append(@, "processing")]
  /\ UNCHANGED <<now, clips, bucket, tmpInput, tmpClips, tempVideo, tempUpload>>

\* download(file_path); on an error list the directory and download the
\* first video file in it; then writeFileSync(`temp/${videoId}-${file_name}`).
\* got = 0: no download gave data.
serverDownload(r) ==
  /\ run[r].pc = "sDownload"
  /\ \E got \in {0} \cup FilesOfOwner(run[r].req.videoMetadataId) :
       IF got = 0
       THEN /\ run' = [run EXCEPT ![r].pc = "sCatch",
                                  ![r].err = Some("Failed to download video")]
            /\ UNCHANGED tempVideo
       ELSE /\ tempVideo' = [tempVideo EXCEPT ![run[r].req.videoMetadataId] = got]
            /\ run' = [run EXCEPT ![r].pc = "sExif"]
  /\ obs' = [obs EXCEPT ![r].dl = TRUE]
  /\ UNCHANGED <<now, rows, clips, bucket, tmpInput, tmpClips, tempUpload>>

\* How a tool run on temp/<videoId>-<file_name> may end.
ServerToolRuns(videoId) == IF tempVideo[videoId] = 0 THEN {"exit"} ELSE {"ok", "exit"}

\* A faulty variant of the first strategy: its records are put aside and the
\* second strategy is run all the same.
serverExifThenFfmpeg(r) ==
  /\ run[r].pc = "sExif"
  /\ run' = [run EXCEPT ![r].pc = "sFfmpeg", ![r].toolFailed = FALSE]
  /\ UNCHANGED <<now, rows, clips, bucket, tmpInput, tmpClips, tempVideo, tempUpload, obs>>

\* extractGpsData, first strategy: extractGpsWithExifTool, whose own catch
\* turns a failed tool run into no records.
serverExif(r) ==
  /\ run[r].pc = "sExif"
  /\ \E st \in ServerToolRuns(run[r].req.videoMetadataId), t \in ClockReads :
       LET file == tempVideo[run[r].req.videoMetadataId]
           gpsRecords == IF st = "ok" THEN extractGpsWithExifTool(Media(file).exif, t) ELSE <<>>
       IN /\ gpsRecords = <<>> => t = now
          /\ now' = t
          /\ IF Len(gpsRecords) > 0
             THEN /\ run' = [run EXCEPT ![r].pc = "sUpdate", ![r].gpsData = gpsRecords,
                                        ![r].gpsFormat = "garmin_embedded"]
                  /\ obs' = [obs EXCEPT ![r].gps = "some"]
             ELSE /\ run' = [run EXCEPT ![r].pc = "sFfmpeg", ![r].toolFailed = st # "ok"]
                  /\ UNCHANGED obs
  /\ UNCHANGED <<rows, clips, bucket, tmpInput, tmpClips, tempVideo, tempUpload>>

\* extractGpsData, second strategy: extractGpsWithFfmpeg, then the result
\* flagged as having no GPS data when it too gave no records.
serverFfmpeg(r) ==
  /\ run[r].pc = "sFfmpeg"
  /\ \E st \in ServerToolRuns(run[r].req.videoMetadataId), t \in ClockReads :
       LET file == tempVideo[run[r].req.videoMetadataId]
           gpsRecords == IF st = "ok" THEN extractGpsWithFfmpeg(Media(file).ffmeta, t) ELSE <<>>
       IN /\ gpsRecords = <<>> => t = now
          /\ now' = t
          /\ IF Len(gpsRecords) > 0
             THEN /\ run' = [run EXCEPT ![r].pc = "sUpdate", ![r].gpsData = gpsRecords,
                                        ![r].gpsFormat = "mp4_stream", ![r].toolFailed = FALSE]
                  /\ obs' = [obs EXCEPT ![r].gps = "some"]
             ELSE /\ run' = [run EXCEPT ![r].pc = "sUpdate", ![r].toolFailed = FALSE]
                  /\ obs' = [obs EXCEPT ![r].gps = IF run[r].toolFailed \/ st # "ok"
                                                   THEN "fail" ELSE "empty"]
  /\ UNCHANGED <<rows, clips, bucket, tmpInput, tmpClips, tempVideo, tempUpload>>

\* updateData of the endpoint: 'completed' and raw_metadata, plus the
\* coordinates when there are records.
FirstTen(records) == SubSeq(records, 1, IF Len(records) < 10 THEN Len(records) ELSE 10)
serverUpdateData(gpsFormat, gpsRecords) ==
  [NoUpdate EXCEPT !.processing_status = Some("completed"),
                   !.raw_metadata = Some(Some(<<gpsFormat, Len(gpsRecords), FirstTen(gpsRecords)>>)),
                   !.ends = IF IsSome(TrackEnds(gpsRecords))
                            THEN Some(TrackEnds(gpsRecords)) ELSE None]

\* update(updateData).eq('id', videoId); then unlinkSync of the temp file
\* (a throw is caught) and the 200 response.
serverUpdate(r) ==
  /\ run[r].pc = "sUpdate"
  /\ \E ok \in BOOLEAN :
       LET videoId == run[r].req.videoMetadataId
           updateData == serverUpdateData(run[r].gpsFormat, run[r].gpsData)
       IN IF ok
          THEN /\ rows' = UpdateRow(videoId, updateData)
               /\ tempVideo' = [tempVideo EXCEPT ![videoId] = 0]
               /\ run' = [run EXCEPT ![r] = Returned(r)]
               /\ obs' = [obs EXCEPT ![r].writes = Append(@, "completed"),
                                     ![r].meta = TRUE,
                                     ![r].ends = IsSome(updateData.ends)]
          ELSE /\ run' = [run EXCEPT ![r].pc = "sCatch",
                                     ![r].err = Some("Failed to update database")]
               /\ UNCHANGED <<rows, tempVideo, obs>>
  /\ UNCHANGED <<now, clips, bucket, tmpInput, tmpClips, tempUpload>>

\* catch (error): update({processing_status: 'failed', processing_error:
\* error.message}).eq('id', videoId), its result not looked at; then the 500
\* response.
serverCatch(r) ==
  /\ run[r].pc = "sCatch"
  /\ \E ok \in BOOLEAN :
       /\ rows' = IF ok
                  THEN UpdateRow(run[r].req.videoMetadataId, FailedUpdate(Val(run[r].err)))
                  ELSE rows
       /\ obs' = [obs EXCEPT ![r].writes = Append(@, "failed"),
                             ![r].fatal = run[r].err,
                             ![r].final = IF ok THEN RowOf(rows', run[r].req.videoMetadataId)
                                          ELSE @]
  /\ run' = [run EXCEPT ![r] = Returned(r)]
  /\ UNCHANGED <<now, clips, bucket, tmpInput, tmpClips, tempVideo, tempUpload>>

\* ------------------------------------- server: POST /extract, GPSExtractor

\* multer stores the upload as temp/<Date.now()>-<originalname>; without a
\* file the route answers 400.
extractInvoke(r) ==
  /\ run[r].pc = "idle"
  /\ \E file \in {0} \cup Videos, t \in ClockReads :
       IF file = 0
       THEN /\ t = now
            /\ run' = [run EXCEPT ![r] = [IdleRun EXCEPT !.kind = "extract", !.pc = "done",
                                                         !.req = ExtractRequest(0)]]
            /\ UNCHANGED <<now, tempUpload>>
       ELSE /\ now' = t
            /\ tempUpload' = [tempUpload EXCEPT ![t] = file]
            /\ run' = [run EXCEPT ![r] = [IdleRun EXCEPT !.kind = "extract", !.pc = "xVersion",
                                                         !.req = ExtractRequest(file),
                                                         !.tempInput = Some(t)]]
  /\ UNCHANGED <<rows, clips, bucket, tmpInput, tmpClips, tempVideo, obs>>

\* extractGPSData: `exiftool -ver`; when it fails, return extractBasicGPSData.
extractVersion(r) ==
  /\ run[r].pc = "xVersion"
  /\ \E ok \in BOOLEAN, t \in ClockReads, jitterLat \in Jitters, jitterLon \in Jitters :
       IF ok
       THEN /\ t = now /\ jitterLat = 18 /\ jitterLon = 18
            /\ run' = [run EXCEPT ![r].pc = "xExif"]
            /\ UNCHANGED <<now, obs>>
       ELSE /\ now' = t
            /\ run' = [run EXCEPT ![r].pc = "xCleanup"]
            /\ obs' = [obs EXCEPT ![r].gps = "fail",
                                  ![r].track = extractBasicGPSData(t, jitterLat, jitterLon)]
  /\ UNCHANGED <<rows, clips, bucket, tmpInput, tmpClips, tempVideo, tempUpload>>

\* extractGPSData: `exiftool -ee -b` and parseRawMetadata; the catch returns
\* extractBasicGPSData.
extractExif(r) ==
  /\ run[r].pc = "xExif"
  /\ \E ok \in BOOLEAN, t \in ClockReads, jitterLat \in Jitters, jitterLon \in Jitters :
       LET file == tempUpload[Val(run[r].tempInput)]
       IN IF ok /\ file # 0
          THEN /\ t = now /\ jitterLat = 18 /\ jitterLon = 18
               /\ obs' = [obs EXCEPT ![r].gps = IF parseRawMetadata(Media(file).gps) = <<>>
                                                THEN "empty" ELSE "some",
                                     ![r].track = parseRawMetadata(Media(file).gps)]
               /\ UNCHANGED now
          ELSE /\ now' = t
               /\ obs' = [obs EXCEPT ![r].gps = "fail",
                                     ![r].track = extractBasicGPSData(t, jitterLat, jitterLon)]
  /\ run' = [run EXCEPT ![r].pc = "xCleanup"]
  /\ UNCHANGED <<rows, clips, bucket, tmpInput, tmpClips, tempVideo, tempUpload>>

\* GPSExtractor.cleanup(): unlink every file of temp/; then the response.
extractCleanup(r) ==
  /\ run[r].pc = "xCleanup"
  /\ tempVideo' = [v \in Videos |-> 0]
  /\ tempUpload' = [t \in Times |-> 0]
  /\ run' = [run EXCEPT ![r] = Returned(r)]
  /\ UNCHANGED <<now, rows, clips, bucket, tmpInput, tmpClips, obs>>

\* -------------------------------------------------------- specification

Next ==
  \E r \in Runs :
    \/ handlerInvoke(r)
    \/ handlerSetProcessing(r)
    \/ handlerDownload(r)
    \/ handlerProbe(r)
    \/ handlerExif(r)
    \/ handlerUpdate(r)
    \/ processVideoClipsSegment(r)
    \/ processVideoClipsProbe(r)
    \/ processVideoClipsUpload(r)
    \/ processVideoClipsInsert(r)
    \/ processVideoClipsRemove(r)
    \/ handlerCleanup(r)
    \/ handlerCatch(r)
    \/ serverFetch(r)
    \/ serverSetProcessing(r)
    \/ serverDownload(r)
    \/ serverExif(r)
    \/ serverFfmpeg(r)
    \/ serverUpdate(r)
    \/ serverCatch(r)
    \/ extractInvoke(r)
    \/ extractVersion(r)
    \/ extractExif(r)
    \/ extractCleanup(r)

Spec == Init /\ [][Next]_vars

\* A row that an earlier run has left Failed: the server endpoint's catch
\* wrote the status and the message of a failed download.
FailedRow == ApplyUpdate(NewRow, FailedUpdate("Failed to download video"))

\* Re-runs: every video has been left Failed by an earlier run, and the
\* callers invoke the pipeline again.  The requests all arrive before the
\* first of them is worked on, so each invocation is made on a Failed video.
InitRetry ==
  /\ now = 0
  /\ rows = [v \in Videos |-> FailedRow]
  /\ clips = {}
  /\ bucket = {}
  /\ tmpInput = [t \in Times |-> 0]
  /\ tmpClips = [t \in Times |-> None]
  /\ tempVideo = [v \in Videos |-> 0]
  /\ tempUpload = [t \in Times |-> 0]
  /\ run = [r \in Runs |-> IdleRun]
  /\ obs = [r \in Runs |-> NoObs]

AllInvoked == \A r \in Runs : run[r].pc # "idle"

NextRetry ==
  \E r \in Runs :
    \/ handlerInvoke(r)
    \/ serverFetch(r)
    \/ extractInvoke(r)
    \/ AllInvoked /\ handlerSetProcessing(r)
    \/ AllInvoked /\ handlerDownload(r)
    \/ AllInvoked /\ handlerProbe(r)
    \/ AllInvoked /\ handlerExif(r)
    \/ AllInvoked /\ handlerUpdate(r)
    \/ AllInvoked /\ processVideoClipsSegment(r)
    \/ AllInvoked /\ processVideoClipsProbe(r)
    \/ AllInvoked /\ processVideoClipsUpload(r)
    \/ AllInvoked /\ processVideoClipsInsert(r)
    \/ AllInvoked /\ processVideoClipsRemove(r)
    \/ AllInvoked /\ handlerCleanup(r)
    \/ AllInvoked /\ handlerCatch(r)
    \/ AllInvoked /\ serverSetProcessing(r)
    \/ AllInvoked /\ serverDownload(r)
    \/ AllInvoked /\ serverExif(r)
    \/ AllInvoked /\ serverFfmpeg(r)
    \/ AllInvoked /\ serverUpdate(r)
    \/ AllInvoked /\ serverCatch(r)
    \/ AllInvoked /\ extractVersion(r)
    \/ AllInvoked /\ extractExif(r)
    \/ AllInvoked /\ extractCleanup(r)

SpecRetry == InitRetry /\ [][NextRetry]_vars

\* Undisturbed runs: storage, database and tools do what they are asked
\* whenever they can.  A call still fails when its own precondition is not
\* met: a file that is not there, a storage path that is taken, a row that
\* does not exist, a clip record that the table's constraints turn away.
NextQuiet ==
  \E r \in Runs :
    \/ handlerInvoke(r)
    \/ handlerSetProcessing(r)
         /\ rows' = UpdateRow(run[r].req.videoMetadataId, ProcessingUpdate)
    \/ handlerDownload(r) /\ run'[r].pc = "probe"
    \/ handlerProbe(r)
         /\ (run'[r].pc = "catch" => tmpInput[Val(run[r].tempInput)] = 0)
    \/ handlerExif(r)
         /\ (obs'[r].gps = "fail" => tmpInput[Val(run[r].tempInput)] = 0)
    \/ handlerUpdate(r) /\ run'[r].pc = "segment"
    \/ processVideoClipsSegment(r)
         /\ (obs'[r].seg = "fail" => tmpInput[Val(run[r].tempInput)] = 0)
    \/ processVideoClipsProbe(r)
         /\ (obs'[r].aborted =>
               \/ tmpClips[Val(run[r].outputDir)] = None
               \/ run[r].i + 1 > Len(Val(tmpClips[Val(run[r].outputDir)])))
    \/ processVideoClipsUpload(r)
         /\ (run'[r].pc # "insert" => clipStoragePath(run[r].req.userId, run[r].i) \in bucket)
    \/ processVideoClipsInsert(r)
         /\ (clips' = clips => ~InsertAllowed(ClipRecord(r)))
    \/ processVideoClipsRemove(r)
    \/ handlerCleanup(r)
    \/ handlerCatch(r)
    \/ serverFetch(r)
         /\ (run'[r].pc = "sCatch" => run'[r].req.videoMetadataId \notin Videos)
    \/ serverSetProcessing(r)
         /\ rows' = UpdateRow(run[r].req.videoMetadataId, ProcessingUpdate)
    \/ serverDownload(r)
         /\ tempVideo'[run[r].req.videoMetadataId] = run[r].req.videoMetadataId
    \/ serverExif(r)
         /\ (run'[r].toolFailed => tempVideo[run[r].req.videoMetadataId] = 0)
    \/ serverFfmpeg(r)
         /\ (obs'[r].gps = "fail" => tempVideo[run[r].req.videoMetadataId] = 0)
    \/ serverUpdate(r) /\ run'[r].pc = "done"
    \/ serverCatch(r)
         /\ rows' = UpdateRow(run[r].req.videoMetadataId, FailedUpdate(Val(run[r].err)))
    \/ extractInvoke(r)
    \/ extractVersion(r) /\ run'[r].pc = "xExif"
    \/ extractExif(r)
         /\ (obs'[r].gps = "fail" => tempUpload[Val(run[r].tempInput)] = 0)
    \/ extractCleanup(r)

SpecQuiet == Init /\ [][NextQuiet]_vars

\* ------------------------------------------- getVideoStartTime on its own

\* The tag texts tried: absent, no date, and a date (time 2 or 5) with and
\* without the marker "UTC".
TagInputs ==
  {None, Some(TagBad)} \cup {Some([txt |-> t, utc |-> u]) : t \in {2, 5}, u \in BOOLEAN}
MetadataInputs ==
  [duration : {None}, encoded_date : TagInputs, creation_time : TagInputs,
   date : {None, Some(TagBad), Some([txt |-> 2, utc |-> FALSE])}]
\* The tracks tried, as parseGpsData returns them: sorted, every timestamp a
\* time (toISOString throws on any other).
TrackInputs ==
  {<<>>, <<GpsRecordOf(Triple(1, 150300, -317300))>>,
   <<GpsRecordOf(Triple(3, 150300, -317300)), GpsRecordOf(Triple(4, 150400, -317200))>>}

\* One call of the resolver: `run` holds its arguments, `obs` what the two
\* handlers' versions return for them (None before the call).
InitResolver ==
  /\ now \in Times
  /\ rows = [v \in Videos |-> NewRow]
  /\ clips = {}
  /\ bucket = {}
  /\ tmpInput = [t \in Times |-> 0]
  /\ tmpClips = [t \in Times |-> None]
  /\ tempVideo = [v \in Videos |-> 0]
  /\ tempUpload = [t \in Times |-> 0]
  /\ run \in [metadata : MetadataInputs, gps : TrackInputs]
  /\ obs = None

resolveStart ==
  /\ obs = None
  /\ obs' = Some([handler |-> getVideoStartTime(run.metadata, run.gps, now),
                  handler_001 |-> getVideoStartTime_001(run.metadata, run.gps, now)])
  /\ UNCHANGED <<now, rows, clips, bucket, tmpInput, tmpClips, tempVideo, tempUpload, run>>

NextResolver == resolveStart

SpecResolver == InitResolver /\ [][NextResolver]_vars

\* ------------------------------------------------- the clip window, alone

\* Timestamps of track points around the window edges of clips 0 to 2.
WindowTimes == {0, 9999, 10000, 15000, 20000, 25000}
MaxTrack == 3

\* A track as parseGpsData returns it: sorted by timestamp; the latitude of a
\* point tells its place in the track.
WindowTracks ==
  {track \in UNION {[1..n -> WindowTimes] : n \in 0..MaxTrack} :
     \A k \in 1..(Len(track) - 1) : track[k] <= track[k + 1]}
TrackOf(times) == [k \in DOMAIN times |-> GpsRecordOf(Triple(times[k], 150300 + k, -317300))]

\* One pass of the loop body for an accepted clip: `run` holds the track,
\* the start of the video and the clip's index, `obs` the GPS subset computed
\* for that clip and for the one after it (None before the pass).
InitWindow ==
  /\ now = 0
  /\ rows = [v \in Videos |-> NewRow]
  /\ clips = {}
  /\ bucket = {}
  /\ tmpInput = [t \in Times |-> 0]
  /\ tmpClips = [t \in Times |-> None]
  /\ tempVideo = [v \in Videos |-> 0]
  /\ tempUpload = [t \in Times |-> 0]
  /\ run \in [gpsData : {TrackOf(times) : times \in WindowTracks}, videoStart : {0, 5000}, i : {0, 1}]
  /\ obs = None

associateGps ==
  /\ obs = None
  /\ obs' = Some([clip |-> clipGpsData(run.gpsData, run.videoStart, run.i),
                  following |-> clipGpsData(run.gpsData, run.videoStart, run.i + 1)])
  /\ UNCHANGED <<now, rows, clips, bucket, tmpInput, tmpClips, tempVideo, tempUpload, run>>

NextWindow == associateGps

SpecWindow == InitWindow /\ [][NextWindow]_vars

\* ------------------------------------------------ the duration test, alone

\* Measured durations (ms): a short remainder and the values around both
\* edges of the tolerance.
DurationInputs == {5000} \cup 9890..10110

\* One test of a produced clip file: `run` holds the duration ffprobe
\* printed for it, `obs` whether the loop body keeps the clip (None before).
InitAccept ==
  /\ now = 0
  /\ rows = [v \in Videos |-> NewRow]
  /\ clips = {}
  /\ bucket = {}
  /\ tmpInput = [t \in Times |-> 0]
  /\ tmpClips = [t \in Times |-> None]
  /\ tempVideo = [v \in Videos |-> 0]
  /\ tempUpload = [t \in Times |-> 0]
  /\ run \in [duration : DurationInputs]
  /\ obs = None

testDuration ==
  /\ obs = None
  /\ obs' = Some(ClipAccepted(run.duration))
  /\ UNCHANGED <<now, rows, clips, bucket, tmpInput, tmpClips, tempVideo, tempUpload, run>>

NextAccept == testDuration

SpecAccept == InitAccept /\ [][NextAccept]_vars

\* ------------------------------------------------ the clip listing, alone

\* clip_%03d.mp4: the segment number in decimal, zero-padded to three digits
\* (more digits when it needs them), then ".mp4". Names are compared from
\* the number on, as sequences of character codes: "." is 46, "0" is 48.
padWidth == 3
RECURSIVE Digits(_)
Digits(k) == IF k < 10 THEN <<48 + k>> ELSE Append(Digits(k \div 10), 48 + (k % 10))
RECURSIVE Padded(_)
Padded(digits) == IF Len(digits) >= padWidth THEN digits ELSE Padded(<<48>> \o digits)
clipFileName(k) == Append(Padded(Digits(k)), 46)

\* The order of clipFiles.sort(): by code units, a prefix before its extension.
RECURSIVE NameBefore(_, _)
NameBefore(a, b) ==
  IF b = <<>> THEN FALSE
  ELSE IF a = <<>> THEN TRUE
  ELSE IF Head(a) # Head(b) THEN Head(a) < Head(b)
  ELSE NameBefore(Tail(a), Tail(b))

\* The loop index i at which the file of segment k is visited, when the
\* splitter has produced the files of segments 0 .. files-1.
IndexOfSegment(k, files) ==
  Cardinality({c \in 0..(files - 1) : NameBefore(clipFileName(c), clipFileName(k))})

\* The numbers of produced files and the segments looked at.
MaxSegments == 1002
SegmentCounts == {3, 12, MaxSegments}
SegmentSamples == {0, 1, 2, 9, 10, 11, 99, 100, 101, 999, 1000, 1001}

\* One listing: `run` holds the number of files the splitter produced and two
\* of its segments, the earlier first; `obs` the loop index of each (None
\* before the listing is sorted).
InitListing ==
  /\ now = 0
  /\ rows = [v \in Videos |-> NewRow]
  /\ clips = {}
  /\ bucket = {}
  /\ tmpInput = [t \in Times |-> 0]
  /\ tmpClips = [t \in Times |-> None]
  /\ tempVideo = [v \in Videos |-> 0]
  /\ tempUpload = [t \in Times |-> 0]
  /\ run \in {l \in [files : SegmentCounts, earlier : SegmentSamples, later : SegmentSamples] :
                l.earlier < l.later /\ l.later < l.files}
  /\ obs = None

sortClipFiles ==
  /\ obs = None
  /\ obs' = Some([earlier |-> IndexOfSegment(run.earlier, run.files),
                  later |-> IndexOfSegment(run.later, run.files)])
  /\ UNCHANGED <<now, rows, clips, bucket, tmpInput, tmpClips, tempVideo, tempUpload, run>>

NextListing == sortClipFiles

SpecListing == InitListing /\ [][NextListing]_vars

\* ---------------------------------------------------- GPS extraction, alone

\* GPS samples of a recording: a time away from the clock's values and a
\* position in arc seconds: in range, on the equator, on the prime meridian,
\* at (0, 0), and north of the pole.
MaxSamples == 2
SampleInputs ==
  [ts : {3, 7},
   pos : {<<150300, -317300>>, <<0, -317300>>, <<150300, 0>>, <<0, 0>>, <<91 * 3600, -317300>>}]
SampleSeqs == UNION {[1..n -> SampleInputs] : n \in 0..MaxSamples}

\* The samples as `exiftool -ee -b` dumps them (one triple each) and as
\* `exiftool -ExtractEmbedded` prints them (a GPS Date/Time, a GPS Latitude
\* and a GPS Longitude line each, the values in degrees, minutes, seconds).
DumpOf(samples) == [k \in DOMAIN samples |-> Triple(samples[k].ts, samples[k].pos[1], samples[k].pos[2])]
DmsOf(v, positive, negative) ==
  Dms(Abs(v) \div 3600, (Abs(v) % 3600) \div 60, Abs(v) % 60, IF v < 0 THEN negative ELSE positive)
RECURSIVE TextOf(_)
TextOf(samples) ==
  IF samples = <<>> THEN <<>>
  ELSE <<TimeLine(Head(samples).ts),
         LatLine(DmsOf(Head(samples).pos[1], "N", "S")),
         LonLine(DmsOf(Head(samples).pos[2], "E", "W"))>> \o TextOf(Tail(samples))

\* The samples as `exiftool -n -ExtractEmbedded` prints them: the same three
\* lines each, the values as numbers.
RECURSIVE NumericTextOf(_)
NumericTextOf(samples) ==
  IF samples = <<>> THEN <<>>
  ELSE <<TimeLine(Head(samples).ts),
         [LatLine(Dms(0, 0, 0, "?")) EXCEPT !.lat = Head(samples).pos[1]],
         [LonLine(Dms(0, 0, 0, "?")) EXCEPT !.lon = Head(samples).pos[2]]>>
       \o NumericTextOf(Tail(samples))

\* One extraction: `run` holds the samples of the recording, `obs` the track
\* each parser returns for the tool's output (None before the extraction).
InitTrack ==
  /\ now \in Times
  /\ rows = [v \in Videos |-> NewRow]
  /\ clips = {}
  /\ bucket = {}
  /\ tmpInput = [t \in Times |-> 0]
  /\ tmpClips = [t \in Times |-> None]
  /\ tempVideo = [v \in Videos |-> 0]
  /\ tempUpload = [t \in Times |-> 0]
  /\ run \in [samples : SampleSeqs]
  /\ obs = None

extractTrack ==
  /\ obs = None
  /\ obs' = Some([edge |-> parseGpsData(DumpOf(run.samples)),
                  server |-> extractGpsWithExifTool(TextOf(run.samples), now),
                  background |-> extractGpsWithExifTool_001(NumericTextOf(run.samples))])
  /\ UNCHANGED <<now, rows, clips, bucket, tmpInput, tmpClips, tempVideo, tempUpload, run>>

NextTrack == extractTrack

SpecTrack == InitTrack /\ [][NextTrack]_vars

\* ---------------------------------------------------- the block parser, alone

\* Lines of the tool's text: a GPS Date/Time line, latitude and longitude
\* lines of both hemispheres, a latitude line whose value does not have the
\* degrees/minutes/seconds form, and a line of another tag.
MaxLines == 3
LineInputs ==
  {TimeLine(3), OtherLine, LatLine(Dms(0, 0, 0, "?")),
   LatLine(Dms(41, 45, 0, "N")), LatLine(Dms(41, 45, 0, "S")),
   LonLine(Dms(88, 8, 20, "E")), LonLine(Dms(88, 8, 20, "W"))}

\* One parse: `run` holds the lines, `obs` the entries the loop has pushed
\* to `coordinates` and what parseDmsCoordinate returns for the value of
\* each line (None before the parse).
InitBlock ==
  /\ now = 0
  /\ rows = [v \in Videos |-> NewRow]
  /\ clips = {}
  /\ bucket = {}
  /\ tmpInput = [t \in Times |-> 0]
  /\ tmpClips = [t \in Times |-> None]
  /\ tempVideo = [v \in Videos |-> 0]
  /\ tempUpload = [t \in Times |-> 0]
  /\ run \in [lines : UNION {[1..n -> LineInputs] : n \in 0..MaxLines}]
  /\ obs = None

parseBlocks ==
  /\ obs = None
  /\ obs' = Some([coordinates |-> ParsedCoordinates(run.lines),
                  decimals |-> [k \in DOMAIN run.lines |-> parseDmsCoordinate(run.lines[k].dms)]])
  /\ UNCHANGED <<now, rows, clips, bucket, tmpInput, tmpClips, tempVideo, tempUpload, run>>

NextBlock == parseBlocks

SpecBlock == InitBlock /\ [][NextBlock]_vars

\* Runs whose status writes succeed: every update of processing_status that
\* a run sends is applied to the row. Everything else may fail as in Next.
NextWritten ==
  \E r \in Runs :
    \/ handlerInvoke(r)
    \/ handlerSetProcessing(r)
         /\ rows' = UpdateRow(run[r].req.videoMetadataId, ProcessingUpdate)
    \/ handlerDownload(r)
    \/ handlerProbe(r)
    \/ handlerExif(r)
    \/ handlerUpdate(r) /\ run'[r].pc = "segment"
    \/ processVideoClipsSegment(r)
    \/ processVideoClipsProbe(r)
    \/ processVideoClipsUpload(r)
    \/ processVideoClipsInsert(r)
    \/ processVideoClipsRemove(r)
    \/ handlerCleanup(r)
    \/ handlerCatch(r)
    \/ serverFetch(r)
    \/ serverSetProcessing(r)
         /\ rows' = UpdateRow(run[r].req.videoMetadataId, ProcessingUpdate)
    \/ serverDownload(r)
    \/ serverExif(r)
    \/ serverFfmpeg(r)
    \/ serverUpdate(r) /\ run'[r].pc = "done"
    \/ serverCatch(r)
         /\ rows' = UpdateRow(run[r].req.videoMetadataId, FailedUpdate(Val(run[r].err)))
    \/ extractInvoke(r)
    \/ extractVersion(r)
    \/ extractExif(r)
    \/ extractCleanup(r)

SpecWritten == Init /\ [][NextWritten]_vars

\* ------------------------------------------------------------ properties

PipelineRuns == {r \in Runs : run[r].kind \in {"edge", "server"}}
Done(r) == run[r].pc = "done"
StatusValues == {"unprocessed", "processing", "completed", "failed"}
\* The last status a run has sent to the database, "none" before the first.
LastWrite(r) == IF obs[r].writes = <<>> THEN "none" ELSE obs[r].writes[Len(obs[r].writes)]
\* The clip records a run has inserted.
ClipsOf(r) == {c \in clips : c.run = r}
Persisted(r, i) == \E c \in ClipsOf(r) : c.clip_index = i

\* C1: a video's status is Completed only if its duration, recorded-start
\* timestamp and raw metadata are all non-null and every clip accepted by a
\* run on it has a persisted clip record.
CompletedImpliesMetadataAndClips ==
  \A v \in Videos :
    rows[v].processing_status = "completed" =>
      /\ IsSome(rows[v].duration)
      /\ IsSome(rows[v].recorded_at)
      /\ IsSome(rows[v].raw_metadata)
      /\ \A r \in PipelineRuns :
           run[r].req.videoMetadataId = v => \A i \in obs[r].accepted : Persisted(r, i)

\* C2: every status a run writes is one of the four values and never
\* Unprocessed, and a run writes Completed or Failed only after it has
\* written Processing.
StatusWritesInOrder ==
  \A r \in Runs :
    \A k \in 1..Len(obs[r].writes) :
      /\ obs[r].writes[k] \in StatusValues \ {"unprocessed"}
      /\ obs[r].writes[k] \in {"completed", "failed"} =>
           \E j \in 1..(k - 1) : obs[r].writes[j] = "processing"

\* An invocation the guard has to reject: a required field is absent, or the
\* row cannot be located.
MustBeRejected(r) ==
  IF run[r].kind = "edge"
  THEN run[r].req.videoMetadataId \notin Videos \/ run[r].req.filePath = 0
       \/ run[r].req.userId = "" \/ run[r].req.cameraId = ""
  ELSE run[r].kind = "server" /\ run[r].req.videoMetadataId \notin Videos

\* C3: an invocation that lacks a required field, or whose row cannot be
\* located, performs no status or metadata write and no download.
RejectedBeforeSideEffect ==
  \A r \in Runs : MustBeRejected(r) => obs[r].writes = <<>> /\ ~obs[r].dl

ProbeErrors == {Some("Command failed (ffprobe)"), Some("Unexpected token in JSON")}

\* C4: a run whose probe step failed has persisted no metadata and no clip
\* and has set the status Failed when it returns.
ProbeFailureFails ==
  \A r \in Runs :
    Done(r) /\ obs[r].fatal \in ProbeErrors =>
      ~obs[r].meta /\ ClipsOf(r) = {} /\ LastWrite(r) = "failed"

\* C5: when a run ends with status Failed, the row it leaves has a non-null
\* processing_error equal to the message of the error that made it fail.
FailedRowCarriesFirstError ==
  \A r \in Runs :
    Done(r) /\ LastWrite(r) = "failed" /\ IsSome(obs[r].final) =>
      /\ Val(obs[r].final).processing_status = "failed"
      /\ IsSome(obs[r].fatal)
      /\ Val(obs[r].final).processing_error = obs[r].fatal

\* C5, its case: a server run whose download failed has returned, leaving the
\* row Failed with the download error.
FailedRowReached ==
  \E r \in Runs :
    /\ Done(r) /\ run[r].kind = "server" /\ LastWrite(r) = "failed"
    /\ IsSome(obs[r].final)
    /\ Val(obs[r].final).processing_error = Some("Failed to download video")

\* C6: a run whose segmentation failed ends with status Failed, not Completed.
SegmenterFailureFails ==
  \A r \in Runs : Done(r) /\ obs[r].seg = "fail" => LastWrite(r) = "failed"

\* C7: the status Completed is written only after the segmentation of the
\* same run has finished successfully.
CompletedAfterSegmentation ==
  \A r \in Runs :
    run[r].kind = "edge" /\ LastWrite(r) = "completed" => obs[r].seg = "ok"

\* C8: when clip files were produced and every one could be measured, a clip
\* whose upload or insert fails is skipped alone: the loop has gone through
\* every clip file, every accepted clip whose upload and insert succeeded has
\* its record, and the run's status is Completed.
ClipFailureIsSoft ==
  \A r \in Runs :
    Done(r) /\ obs[r].seg = "ok" /\ ~obs[r].aborted =>
      /\ obs[r].visited = obs[r].files
      /\ \A i \in obs[r].accepted \ obs[r].clipFail : Persisted(r, i)
      /\ LastWrite(r) = "completed"

\* C8, its case: a run has returned after the upload or insert of one clip
\* failed and a later clip was persisted.
LaterClipPersistedAfterFailure ==
  \E r \in Runs :
    /\ Done(r) /\ obs[r].seg = "ok" /\ ~obs[r].aborted
    /\ \E i \in obs[r].clipFail, j \in obs[r].accepted \ obs[r].clipFail :
         i < j /\ Persisted(r, j)

\* C9: a run whose GPS extraction failed or gave no sample, and that met no
\* fatal error, ends with status Completed, has written no start or end
\* coordinate, and every clip it persisted has an empty GPS subset.
EmptyTrackStillCompletes ==
  \A r \in PipelineRuns :
    Done(r) /\ obs[r].gps \in {"fail", "empty"} /\ obs[r].fatal = None =>
      /\ LastWrite(r) = "completed"
      /\ ~obs[r].ends
      /\ \A c \in ClipsOf(r) : c.gps_records = <<>>

\* C9, its case: an edge run whose GPS dump held no sample has returned with
\* a clip persisted.
EmptyTrackRunWithClip ==
  \E r \in Runs :
    /\ Done(r) /\ run[r].kind = "edge" /\ obs[r].gps = "empty" /\ obs[r].fatal = None
    /\ ClipsOf(r) # {}

\* The points the tool output for a file holds.
PointsOf(file) ==
  {parseRawMetadata(Media(file).gps)[k] : k \in 1..Len(parseRawMetadata(Media(file).gps))}

\* C10: the extractor returns an empty track when the tool cannot be invoked
\* or fails, and every point it returns comes from the tool output for the file.
ExtractorEmptyOnFailure ==
  \A r \in Runs :
    run[r].kind = "extract" /\ run[r].req.filePath # 0 =>
      /\ obs[r].gps = "fail" => obs[r].track = <<>>
      /\ \A k \in 1..Len(obs[r].track) : obs[r].track[k] \in PointsOf(run[r].req.filePath)

\* The step with which invocation r returns to its caller.
Returns(r) == run[r].pc # "done" /\ run'[r].pc = "done"

\* The server run has written temp/<videoId>-<file_name>.
ServerFileWritten(r) ==
  \/ run[r].pc \in {"sExif", "sFfmpeg", "sUpdate"}
  \/ run[r].pc = "sCatch" /\ run[r].err = Some("Failed to update database")

\* C11: on every exit path of a run, the source file it downloaded and the
\* clip directory it created no longer exist when the run returns.
ScratchGoneAtReturn ==
  [][\A r \in Runs :
       Returns(r) =>
         /\ run[r].kind = "edge" /\ IsSome(run[r].tempInput) =>
              tmpInput'[Val(run[r].tempInput)] = 0
         /\ run[r].kind = "edge" /\ IsSome(run[r].outputDir) =>
              tmpClips'[Val(run[r].outputDir)] = None
         /\ run[r].kind = "server" /\ ServerFileWritten(r) =>
              tempVideo'[run[r].req.videoMetadataId] = 0]_vars

DownloadErrors == {Some("Download failed"), Some("Failed to download video")}

\* C12: a run whose download of the source file failed ends with status
\* Failed and has persisted no metadata.
DownloadFailureFails ==
  \A r \in Runs :
    Done(r) /\ obs[r].fatal \in DownloadErrors => LastWrite(r) = "failed" /\ ~obs[r].meta

UpdateErrors == {Some("DB update failed"), Some("Failed to update database")}

\* C13: a run whose metadata write failed ends with status Failed, has
\* uploaded no clip file and has persisted no clip record.
MetadataWriteFailureFails ==
  \A r \in Runs :
    Done(r) /\ obs[r].fatal \in UpdateErrors =>
      /\ LastWrite(r) = "failed"
      /\ obs[r].accepted = {} /\ obs[r].seg = "none"
      /\ ClipsOf(r) = {}

\* C14: a video whose status is Processing or Completed carries no error
\* message: the run that set Processing cleared processing_error.
NoErrorWhileProcessingOrCompleted ==
  \A v \in Videos :
    rows[v].processing_status \in {"processing", "completed"} =>
      rows[v].processing_error = None

\* The video of run r is one an earlier run has left Failed or Processing.
OnRerunVideo(r, id) ==
  id \in Videos /\ rows[id].processing_status \in {"failed", "processing"}

\* C15: a run on a video whose status is Failed or Processing is accepted by
\* the guard like any other, its first update leaves the status Processing,
\* and its terminal update leaves Completed or Failed, whatever the status was.
RerunAccepted ==
  [][\A r \in Runs :
       LET before == run[r]
           after == run'[r]
           id == after.req.videoMetadataId
       IN OnRerunVideo(r, id) =>
            /\ (before.pc = "idle" /\ after.kind = "edge" /\ after.req.filePath # 0
                /\ after.req.userId # "" /\ after.req.cameraId # "")
                 => after.pc = "setProcessing" /\ after.err = None
            /\ (before.pc \in {"setProcessing", "sSetProcessing"} /\ after.pc # before.pc)
                 => /\ after.pc \in {"download", "sDownload"}
                    /\ obs'[r].writes = Append(obs[r].writes, "processing")
                    /\ rows'[id] # rows[id] \/ rows[id].processing_status = "processing"
                         => rows'[id].processing_status = "processing"
            /\ (before.pc \in {"update", "sUpdate"} /\ obs'[r].meta /\ ~obs[r].meta)
                 => rows'[id].processing_status = "completed"
            /\ (before.pc = "sCatch" /\ after.pc = "done" /\ obs'[r].final # obs[r].final)
                 => rows'[id].processing_status = "failed"]_vars

\* C15, its case: after a run on a video has ended Failed, a later run on the
\* same video has been accepted and has moved the status back to Processing.
RerunMovedFailedToProcessing ==
  \E r \in Runs, q \in Runs :
    LET id == run[r].req.videoMetadataId
    IN /\ q # r /\ id \in Videos /\ run[q].req.videoMetadataId = id
       /\ Done(q) /\ LastWrite(q) = "failed" /\ IsSome(obs[q].final)
       /\ run[r].kind = "edge" /\ run[r].pc = "download"
       /\ obs[r].writes = <<"processing">>
       /\ rows[id].processing_status = "processing"
       /\ rows[id].processing_error = obs[q].fatal

\* The positions in a run's writes that hold a terminal status.
TerminalWrites(writes) == {k \in 1..Len(writes) : writes[k] \in {"completed", "failed"}}

UnderWay(r) == run[r].pc \notin {"idle", "done"}

\* C17: the status of a video changes only in a step of an invocation that a
\* caller started on that video and that has not returned; a returned
\* invocation takes no further step, and no invocation sends Processing twice.
\* So a status left at Processing stays until a caller invokes again.
StatusMovesOnlyWithinInvocation ==
  [][/\ \A v \in Videos :
          rows'[v].processing_status # rows[v].processing_status =>
            \E r \in Runs :
              UnderWay(r) /\ run[r].req.videoMetadataId = v /\ run'[r] # run[r]
     /\ \A r \in Runs :
          /\ Done(r) => run'[r] = run[r] /\ obs'[r] = obs[r]
          /\ Cardinality({k \in 1..Len(obs'[r].writes) : obs'[r].writes[k] = "processing"}) <= 1
    ]_vars

\* C17, its case: the only invocation so far has returned after an error
\* without a terminal write, and the row is at Processing.
LeftAtProcessing ==
  \E r \in Runs :
    /\ Done(r) /\ LastWrite(r) = "processing" /\ IsSome(obs[r].fatal)
    /\ run[r].req.videoMetadataId \in Videos
    /\ rows[run[r].req.videoMetadataId].processing_status = "processing"
    /\ \A q \in Runs \ {r} : run[q].pc = "idle"

\* Invocation r has passed the guard: it has sent its first update.
PassedGuard(r) == Len(obs[r].writes) >= 1 /\ obs[r].writes[1] = "processing"

\* C18: every invocation that passed the guard has written a terminal status
\* (Completed or Failed) by the time it returns.
TerminalStatusAtReturn ==
  \A r \in PipelineRuns :
    Done(r) /\ PassedGuard(r) => TerminalWrites(obs[r].writes) # {}

\* The columns a run persists as the video's metadata, with the status.
PersistedMetadata(row) ==
  <<row.processing_status, row.duration, row.recorded_at, row.raw_metadata>>

\* C19: when an edge run on a Failed video has ended Completed, a second run
\* on the same Failed video, with the same request and the same tool outputs,
\* writes the same terminal status and the same duration, recorded-start and
\* raw metadata.
RerunRepeatsResult ==
  [][\A r \in Runs, q \in Runs :
       LET id == run[r].req.videoMetadataId
       IN (/\ q # r /\ id \in Videos
           /\ run[q].kind = "edge" /\ run[r].kind = "edge" /\ run[q].req = run[r].req
           /\ Done(q) /\ LastWrite(q) = "completed" /\ obs[q].gps = obs[r].gps
           /\ run[r].pc = "update" /\ ~obs[r].meta /\ obs'[r].meta)
          => PersistedMetadata(rows'[id])
               = PersistedMetadata([rows[id] EXCEPT !.processing_status = "completed"])]_vars

\* The clip indexes an undisturbed edge run on video v persists: those whose
\* file passes the duration test.
ExpectedClips(v) == {i \in 0..(MaxClips - 1) : ClipAccepted(Media(v).clips[i + 1])}

\* What an undisturbed edge run on video v, executing alone, leaves behind.
AsIfAlone(v) ==
  /\ rows[v].processing_status = "completed"
  /\ rows[v].duration = Media(v).probe.duration
  /\ rows[v].raw_metadata = Some(<<"ffprobe", Media(v).probe>>)
  /\ {c.clip_index : c \in {d \in clips : d.video_id = v}} = ExpectedClips(v)
  /\ \A c \in clips : c.video_id = v => c.duration = Media(v).clips[c.clip_index + 1]

\* An edge invocation with a complete request for an existing video's own file.
ProperEdgeRun(r) ==
  /\ run[r].kind = "edge"
  /\ run[r].req.videoMetadataId \in Videos
  /\ run[r].req = EdgeRequest(run[r].req.videoMetadataId, run[r].req.videoMetadataId,
                              Owner(run[r].req.videoMetadataId), "garmin_dashcam")

\* C20: when two undisturbed runs on distinct videos have both returned, each
\* video has the status, metadata and persisted clips its run would have
\* left had it executed alone.
DistinctVideosDoNotInterfere ==
  \A r \in Runs, q \in Runs :
    (/\ ProperEdgeRun(r) /\ ProperEdgeRun(q)
     /\ run[r].req.videoMetadataId # run[q].req.videoMetadataId
     /\ Done(r) /\ Done(q))
    => AsIfAlone(run[r].req.videoMetadataId)

\* One undisturbed edge run that has returned, no other invocation having
\* been made, leaves its video as AsIfAlone describes.
AloneAsExpected ==
  \A r \in Runs :
    (ProperEdgeRun(r) /\ Done(r) /\ \A q \in Runs \ {r} : run[q].pc = "idle")
    => AsIfAlone(run[r].req.videoMetadataId)

\* C21: a run or request in progress still has the scratch files it wrote,
\* with what it wrote in them: no other run or request has deleted or
\* overwritten its uploaded file, its downloaded source or its clip directory.
ScratchFilesOwned ==
  \A r \in Runs :
    /\ (run[r].kind = "extract" /\ run[r].pc \in {"xVersion", "xExif", "xCleanup"}) =>
         tempUpload[Val(run[r].tempInput)] = run[r].req.filePath
    /\ (run[r].kind = "server" /\ run[r].pc \in {"sExif", "sFfmpeg", "sUpdate"}) =>
         tempVideo[run[r].req.videoMetadataId] # 0
    /\ (run[r].kind = "edge" /\ run[r].pc \in {"probe", "exif", "update", "segment", "clip",
                                               "upload", "insert", "rmdir", "cleanup"}) =>
         tmpInput[Val(run[r].tempInput)] = run[r].req.filePath
    /\ (run[r].kind = "edge" /\ run[r].pc \in {"clip", "upload", "insert", "rmdir"}) =>
         tmpClips[Val(run[r].outputDir)] # None

\* C22: no two rows of video_clips have the same (video_id, clip_index).
ClipIndexUnique ==
  \A c \in clips, d \in clips :
    (c.video_id = d.video_id /\ c.clip_index = d.clip_index) => c = d

\* C22, its case: two runs on the same video have both uploaded their file
\* for clip i, under different paths, and sent the insert; one record exists.
SecondInsertRefused ==
  \E r \in Runs, q \in Runs, i \in 0..(MaxClips - 1) :
    /\ r # q /\ run[r].kind = "edge" /\ run[q].kind = "edge"
    /\ run[r].req.videoMetadataId \in Videos
    /\ run[q].req.videoMetadataId = run[r].req.videoMetadataId
    /\ run[q].req.userId # run[r].req.userId
    /\ Persisted(r, i)
    /\ clipStoragePath(run[q].req.userId, i) \in bucket
    /\ i \in obs[q].clipFail

\* The time a tag's text denotes once "UTC" is stripped, NaN when the tag is
\* absent or its text is no date.
TagTime(tag) == IF IsSome(tag) /\ Val(tag).txt >= 0 THEN Val(tag).txt ELSE NaN

\* The time StartTimeResolver has to take from the tags: that of the first
\* tag, encoded_date then creation_time, that is present and parses.
FirstTagTime(metadata) ==
  IF TagTime(metadata.encoded_date) # NaN THEN TagTime(metadata.encoded_date)
  ELSE TagTime(metadata.creation_time)

\* C23 for the handler of part_000 alone: the tag time when a tag parses,
\* whatever the track holds.
HandlerTagFirst ==
  (IsSome(obs) /\ FirstTagTime(run.metadata) # NaN) =>
    Val(obs).handler = FirstTagTime(run.metadata)

\* C23: each resolver returns the time of the first tag, encoded_date then
\* creation_time, that is present and parses after "UTC" is stripped, whatever
\* the track holds.
TagTimeFirst ==
  (IsSome(obs) /\ FirstTagTime(run.metadata) # NaN) =>
    /\ Val(obs).handler = FirstTagTime(run.metadata)
    /\ Val(obs).handler_001 = FirstTagTime(run.metadata)

\* What StartTimeResolver has to return when no tag parses: the timestamp of
\* the track's first point, or the current time for an empty track.
FallbackTime(gps, clock) == IF Len(gps) > 0 THEN gps[1].timestamp ELSE clock

\* C24 for the handler of part_000 alone.
HandlerFallback ==
  IsSome(obs) =>
    /\ Val(obs).handler # NaN
    /\ FirstTagTime(run.metadata) = NaN => Val(obs).handler = FallbackTime(run.gps, now)

\* C24: when no tag parses, each resolver returns the timestamp of the
\* track's first point, or the current time when the track is empty; what it
\* returns is a valid timestamp in every case.
FallbackToTrackThenNow ==
  IsSome(obs) =>
    /\ Val(obs).handler # NaN /\ Val(obs).handler_001 # NaN
    /\ FirstTagTime(run.metadata) = NaN =>
         /\ Val(obs).handler = FallbackTime(run.gps, now)
         /\ Val(obs).handler_001 = FallbackTime(run.gps, now)

\* The places in the track of the points in a subset (latitudes tell them).
PlacesOf(subset) == [k \in DOMAIN subset |-> subset[k].latitude - 150300]
\* The places of the track points whose timestamp t has lo <= t < hi.
PlacesWithin(lo, hi) ==
  {k \in DOMAIN run.gpsData : run.gpsData[k].timestamp >= lo /\ run.gpsData[k].timestamp < hi}
WindowStart(i) == run.videoStart + i * segmentLength

\* C25: the GPS subset of clip i holds exactly the track points with
\* start + i*10s <= t < start + (i+1)*10s, each once and in track order; a
\* point at start + (i+1)*10s is in the subset of clip i+1 only, and no
\* point is in both subsets.
ClipWindowHalfOpen ==
  IsSome(obs) =>
    LET places == PlacesOf(Val(obs).clip)
        after == PlacesOf(Val(obs).following)
    IN /\ \A k \in DOMAIN places : Val(obs).clip[k] = run.gpsData[places[k]]
       /\ {places[k] : k \in DOMAIN places} = PlacesWithin(WindowStart(run.i), WindowStart(run.i + 1))
       /\ \A k \in 1..(Len(places) - 1) : places[k] < places[k + 1]
       /\ {after[k] : k \in DOMAIN after} = PlacesWithin(WindowStart(run.i + 1), WindowStart(run.i + 2))
       /\ {places[k] : k \in DOMAIN places} \cap {after[k] : k \in DOMAIN after} = {}

\* C25 witness: the track has a point exactly at the end of clip i's window
\* and one inside it; the first went to clip i+1, the second to clip i.
BoundaryPointInNextClip ==
  /\ IsSome(obs)
  /\ Val(obs).clip # <<>>
  /\ \E k \in DOMAIN Val(obs).following :
       Val(obs).following[k].timestamp = WindowStart(run.i + 1)

\* C26: a produced clip is accepted exactly when its measured duration, in
\* milliseconds, is less than 100 ms away from 10 s.
AcceptedIffWithinTolerance ==
  IsSome(obs) => (Val(obs) <=> Abs(run.duration - segmentLength) < Tolerance)

\* Away from the two edges the test is the one of C26.
AcceptedOffTheEdges ==
  IsSome(obs) /\ Abs(run.duration - segmentLength) # Tolerance =>
    (Val(obs) <=> Abs(run.duration - segmentLength) < Tolerance)

\* C27: the index a clip is persisted under, its position in the sorted
\* listing, increases with the clips' temporal order: of two segments of one
\* run the earlier one has the smaller index.
IndexFollowsTemporalOrder ==
  IsSome(obs) => Val(obs).earlier < Val(obs).later

\* With at most 1000 produced files the position in the sorted listing is
\* the segment number.
IndexIsSegmentNumber ==
  IsSome(obs) /\ run.files <= 1000 =>
    Val(obs).earlier = run.earlier /\ Val(obs).later = run.later

NonDecreasing(track) == \A k \in 1..(Len(track) - 1) : track[k].timestamp <= track[k + 1].timestamp
\* Every point of the track is a sample of the recording, with its time.
FromSamples(track) ==
  \A k \in DOMAIN track : \E j \in DOMAIN run.samples :
    track[k] = GpsRecordOf(DumpOf(run.samples)[j])

\* C28 for the parser of the edge function alone.
EdgeTrackSorted ==
  IsSome(obs) => NonDecreasing(Val(obs).edge) /\ FromSamples(Val(obs).edge)

\* C28: whatever the order of the samples in the tool output, the track each
\* parser returns is sorted by timestamp, non-decreasing, and each of its
\* points carries the timestamp parsed from its sample.
TrackSortedWithSampleTimes ==
  IsSome(obs) =>
    /\ NonDecreasing(Val(obs).edge) /\ FromSamples(Val(obs).edge)
    /\ NonDecreasing(Val(obs).server) /\ FromSamples(Val(obs).server)

ValidPoint(p) == isValidGpsCoordinate(p.latitude, p.longitude)
ValidTrack(track) == \A k \in DOMAIN track : ValidPoint(track[k])

\* C29 for the parser of the server alone.
ServerTrackInRange ==
  IsSome(obs) => ValidTrack(Val(obs).server)

\* C29: no point of an extracted track, and no start or end coordinate the
\* handler takes from it for the video row, is out of range or at (0, 0).
TrackInRange ==
  IsSome(obs) =>
    /\ ValidTrack(Val(obs).edge) /\ ValidTrack(Val(obs).server)
    /\ \A ends \in {TrackEnds(Val(obs).edge), TrackEnds(Val(obs).server)} :
         IsSome(ends) => ValidPoint(Val(ends).start) /\ ValidPoint(Val(ends).end)

AllValid == \A j \in DOMAIN run.samples : isValidGpsCoordinate(run.samples[j].pos[1], run.samples[j].pos[2])

\* C30 for the parser of the edge function alone.
EdgeKeepsEverySample ==
  IsSome(obs) /\ AllValid => Len(Val(obs).edge) = Len(run.samples)

\* C30: for N well-formed samples with valid coordinates, one of them zero
\* or not, each parser returns a track of exactly N points.
EverySampleOnce ==
  IsSome(obs) /\ AllValid =>
    /\ Len(Val(obs).edge) = Len(run.samples)
    /\ Len(Val(obs).server) = Len(run.samples)

\* C31: no step of a run modifies or deletes a clip record that exists: every
\* record of the table is in the table, unchanged, after the step.
ClipRecordsKept == [][clips \subseteq clips']_vars

\* C31 witness: a run on a video has finished after its insert for an index
\* was not accepted, and the record another run stored for that video and
\* index is in the table.
RerunLeftClipInPlace ==
  \E r1, r2 \in Runs :
    /\ r1 # r2 /\ run[r2].pc = "done" /\ run[r2].kind = "edge"
    /\ \E c \in ClipsOf(r1) :
         c.video_id = run[r2].req.videoMetadataId /\ c.clip_index \in obs[r2].clipFail

\* C32: each sample the block parser emits carries the timestamp of a GPS
\* Date/Time line of the text and the coordinates of lines that follow that
\* line; coordinate lines before the first GPS Date/Time line emit nothing.
SampleHasBlockTime ==
  IsSome(obs) =>
    \A j \in DOMAIN Val(obs).coordinates :
      LET e == Val(obs).coordinates[j]
      IN \E k \in DOMAIN run.lines :
           /\ run.lines[k].kind = "time" /\ e.timestamp = Some(run.lines[k].ts)
           /\ \E a, b \in (k + 1)..Len(run.lines) :
                /\ run.lines[a].kind = "lat" /\ e.latitude = Val(obs).decimals[a]
                /\ run.lines[b].kind = "lon" /\ e.longitude = Val(obs).decimals[b]

\* The part of C32 the parser keeps: without both a latitude and a longitude
\* line in the text no sample is emitted.
IncompleteBlockEmitsNothing ==
  IsSome(obs) /\ Val(obs).coordinates # <<>> =>
    /\ \E a \in DOMAIN run.lines : run.lines[a].kind = "lat" /\ IsSome(Val(obs).decimals[a])
    /\ \E b \in DOMAIN run.lines : run.lines[b].kind = "lon"

VariantsWriteSameRow ==
  IsSome(obs) =>
    /\ Len(Val(obs).server) = Len(Val(obs).background)
    /\ TrackEnds(Val(obs).server) = TrackEnds(Val(obs).background)

\* For samples with valid coordinates, none of them zero, the two variants
\* write the same number of records and the same coordinates.
VariantsAgreeOnPlainSamples ==
  IsSome(obs) /\ (\A j \in DOMAIN run.samples :
                    run.samples[j].pos = <<150300, -317300>>) =>
    /\ Len(Val(obs).server) = Len(Val(obs).background)
    /\ TrackEnds(Val(obs).server) = TrackEnds(Val(obs).background)

\* C36: when two runs on one video have both passed the guard and run to
\* their end, with every status write applied, the video's status is
\* Completed or Failed.
TerminalAfterAllRuns ==
  \A v \in Videos :
    (\A r \in Runs : /\ run[r].kind \in {"edge", "server"} /\ run[r].req.videoMetadataId = v
                     /\ PassedGuard(r) /\ Done(r))
      => rows[v].processing_status \in {"completed", "failed"}

\* C36 for runs of the server endpoint alone.
TerminalAfterServerRuns ==
  \A v \in Videos :
    (\A r \in Runs : /\ run[r].kind = "server" /\ run[r].req.videoMetadataId = v
                     /\ PassedGuard(r) /\ Done(r))
      => rows[v].processing_status \in {"completed", "failed"}

\* C37: a step changes the row of a video only when it is a step of a run
\* invoked for that video, and a clip record it inserts carries the video_id
\* of the run that takes the step; every other row is as it was.
OnlyOwnVideoWritten ==
  [][/\ \A r, q \in Runs : run'[r] # run[r] /\ run'[q] # run[q] => r = q
     /\ \A w \in Videos :
          rows'[w] # rows[w] =>
            \E r \in Runs : /\ run'[r] # run[r] /\ run[r].kind \in {"edge", "server"}
                            /\ run[r].req.videoMetadataId = w
     /\ \A c \in clips' \ clips :
          \E r \in Runs : /\ run'[r] # run[r] /\ run[r].kind = "edge"
                          /\ run[r].req.videoMetadataId = c.video_id]_vars

\* C37 witness: a run for video 1 has ended with its row written and a clip
\* record inserted, and the row of video 2 is as it was created, without a
\* clip record.
OtherVideoUntouched ==
  \E r \in Runs :
    /\ Done(r) /\ run[r].req.videoMetadataId = 1
    /\ rows[1].processing_status = "completed" /\ ClipsOf(r) # {}
    /\ rows[2] = NewRow /\ \A c \in clips : c.video_id = 1

\* C38: the metadata update of a run whose track is non-empty leaves in the
\* row the coordinates of the track's first point as start and of its last
\* point as end; the update of a run whose track is empty leaves the row's
\* coordinates as they were.
EndsFromFirstAndLastPoint ==
  [][\A r \in Runs :
       LET id == run[r].req.videoMetadataId
           track == run[r].gpsData
       IN run[r].kind \in {"edge", "server"} /\ id \in Videos /\ ~obs[r].meta /\ obs'[r].meta =>
            IF Len(track) > 0
            THEN rows'[id].ends =
                   Some([start |-> [latitude |-> track[1].latitude,
                                    longitude |-> track[1].longitude],
                         end |-> [latitude |-> track[Len(track)].latitude,
                                  longitude |-> track[Len(track)].longitude]])
            ELSE rows'[id].ends = rows[id].ends]_vars

\* C38 witness: a run with a track of several points has written the row,
\* whose start and end coordinates differ.
DistinctEndsWritten ==
  \E r \in Runs :
    LET id == run[r].req.videoMetadataId
    IN /\ obs[r].meta /\ obs[r].ends /\ id \in Videos /\ Len(run[r].gpsData) > 1
       /\ IsSome(rows[id].ends) /\ Val(rows[id].ends).start # Val(rows[id].ends).end

====
